---- MODULE Spec2Model ----
(***************************************************************************)
(* Agent lifecycle and task-dispatch protocol of baihu-panel.              *)
(*                                                                         *)
(* The persistent store is modelled table by table:                        *)
(*   agents    rows of models.Agent, row i has primary key i; a row is     *)
(*             never removed (gorm.DeletedAt makes every Delete a soft     *)
(*             delete), a soft-deleted row has deleted = TRUE and is       *)
(*             skipped by every query                                      *)
(*   tasks     rows of models.Task (only the columns this code reads)      *)
(*   logs      rows of models.TaskLog                                      *)
(* Times are minutes on one clock (now).  A token is a number: 0 is the    *)
(* empty string, k > 0 is the k-th value generateToken() returned.         *)
(***************************************************************************)
EXTENDS Integers, Sequences, FiniteSets, TLC

VARIABLES agents, tasks, logs, nextLogId, stats, cleaning,
          now, latestVersion, nextToken, resp,
          regCodes, redeemers, deleting, beating, registering, approving

agentVars  == <<agents, nextToken>>
ledgerVars == <<logs, nextLogId, stats, cleaning>>
codeVars   == <<regCodes, redeemers>>
flightVars == <<deleting, beating, registering, approving>>
vars == <<agents, tasks, logs, nextLogId, stats, cleaning,
          now, latestVersion, nextToken, resp, regCodes, redeemers,
          deleting, beating, registering, approving>>

----------------------------------------------------------------------------
(* Bounds of the model *)

MaxAgents == 2
MaxTokens == 2
MaxNow == 3
MaxTasks == 2
MaxLogs == 4
MaxReports == 2
MaxDays == 2
MaxCodes == 2
MaxRedeems == 2
MaxBeats == 2
MaxCalls == 2

(* Program constants *)

\* time.Now().Add(-2 * time.Minute)
OfflineWindow == 2

\* the empty string in the token column
NoToken == 0

\* time.Now().AddDate(0, 0, -config.Keep): one day, in minutes
MinutesPerDay == 1440

\* a time column that is NULL
NullTime == -1

----------------------------------------------------------------------------
(* Inputs *)

Names == {"w1", "w2"}
IPs == {"10.0.0.1", "10.0.0.2"}
Versions == {"1.0", "1.1"}

\* models.AgentRegisterRequest bodies
RepeatedReqs ==
  {[name |-> "w1", hostname |-> "h1", version |-> "1.0"],
   [name |-> "w1", hostname |-> "h2", version |-> "1.1"],
   [name |-> "w2", hostname |-> "h1", version |-> "1.0"]}

RegisterReqs ==
  { [name |-> "w1", hostname |-> "h1", version |-> "1.0"],
    [name |-> "w2", hostname |-> "h1", version |-> "1.0"],
    [name |-> "",   hostname |-> "h1", version |-> "1.0"] }

\* heartbeat bodies: all fields set, none set, some set
HeartbeatReqs ==
  { [version |-> "1.0", build_time |-> "b1", hostname |-> "h1", os |-> "linux", arch |-> "amd64"],
    [version |-> "",    build_time |-> "",   hostname |-> "",   os |-> "",      arch |-> ""],
    [version |-> "1.1", build_time |-> "",   hostname |-> "h2", os |-> "",      arch |-> "arm64"] }

\* a heartbeat body that repeats what the agent registered with
SameHeartbeat ==
  [version |-> "1.0", build_time |-> "", hostname |-> "h1", os |-> "", arch |-> ""]

\* bodies of the management Update call
UpdateReqs ==
  { [name |-> "w1", description |-> "",  enabled |-> TRUE],
    [name |-> "w2", description |-> "d", enabled |-> FALSE],
    [name |-> "",   description |-> "d", enabled |-> TRUE] }

\* the enabled switch turned off and on, the rest of the form as it was
SwitchReqs ==
  { [name |-> "w1", description |-> "", enabled |-> e] : e \in BOOLEAN }

\* the clean_config column of a task: empty, not JSON, or a JSON CleanConfig
NoCleanConfig == [text |-> "empty", type |-> "", keep |-> 0]
BadCleanConfig == [text |-> "invalid", type |-> "", keep |-> 0]
CleanConfigOf(type, keep) == [text |-> "json", type |-> type, keep |-> keep]

\* bodies of the result report: models.AgentTaskResult
ResultOf(task, agent, status, output) ==
  [task_id |-> task, agent_id |-> agent, command |-> "cmd", output |-> output,
   status |-> status, duration |-> 5, exit_code |-> IF status = "success" THEN 0 ELSE 1,
   start_time |-> 0, end_time |-> 0]

----------------------------------------------------------------------------
(* Responses: the operation answered, the HTTP status, the message of the  *)
(* error, and the payload                                                  *)

NoResp ==
  [op |-> "", code |-> 0, msg |-> "", agent_id |-> 0, name |-> "", status |-> "",
   token |-> NoToken, has_token |-> FALSE, tasks |-> {},
   need_update |-> FALSE, force_update |-> FALSE, latest_version |-> ""]

Success(op) == [NoResp EXCEPT !.op = op, !.code = 200]
Failure(op, code, msg) == [NoResp EXCEPT !.op = op, !.code = code, !.msg = msg]

----------------------------------------------------------------------------
(* Queries *)

AgentIds == DOMAIN agents

\* gorm adds deleted_at IS NULL to every query on models.Agent
Visible(i) == i \in AgentIds /\ ~agents[i].deleted

Min(S) == CHOOSE x \in S : \A y \in S : x <= y

\* .First(): the row with the lowest primary key among the matches, 0 if none
First(S) == IF S = {} THEN 0 ELSE Min(S)

GetByID(id) == IF Visible(id) THEN id ELSE 0

\* the lookup without its token condition
GetByTokenAny(token) == First({i \in AgentIds : Visible(i)})

GetByToken(token) == First({i \in AgentIds : Visible(i) /\ agents[i].token = token})

\* the unique index on the token column covers every row, soft-deleted ones too
TokenTaken(token) == \E i \in AgentIds : agents[i].token = token

\* generateToken(): 32 random bytes, hex-encoded; a value not handed out before
generateToken == nextToken

----------------------------------------------------------------------------
(* Init *)

Init ==
  /\ agents = <<>>
  /\ tasks = <<>>
  /\ logs = {}
  /\ nextLogId = 1
  /\ stats = [t \in 1..(MaxTasks + 1) |-> [success |-> 0, failed |-> 0]]
  /\ cleaning = {}
  /\ now = 0
  /\ latestVersion = ""
  /\ nextToken = 1
  /\ resp = NoResp
  /\ regCodes = <<>>
  /\ redeemers = <<>>
  /\ deleting = {}
  /\ beating = {}
  /\ registering = {}
  /\ approving = {}

----------------------------------------------------------------------------
(* AgentService and AgentController: the registry *)

NewAgent(req, ip) ==
  [name |-> req.name, token |-> NoToken, description |-> "", status |-> "pending",
   last_seen |-> now, ip |-> ip, version |-> req.version, build_time |-> "",
   hostname |-> req.hostname, os |-> "", arch |-> "",
   force_update |-> FALSE, enabled |-> TRUE, deleted |-> FALSE]

\* the lookup of Register without its condition on the status
ExistingByName(name) ==
  First({i \in AgentIds : Visible(i) /\ agents[i].name = name})

\* AgentService.Register: Where("name = ? AND status = ?", req.Name,
\* "pending").First(&existing), 0 when there is no such row
ExistingPending(name) ==
  First({i \in AgentIds : /\ Visible(i)
                          /\ agents[i].name = name
                          /\ agents[i].status = "pending"})

\* POST register: AgentController.Register, AgentService.Register
Register(req, ip) ==
  LET existing == ExistingPending(req.name) IN
  /\ UNCHANGED <<tasks, ledgerVars, now, latestVersion, nextToken, codeVars, flightVars>>
  /\ IF req.name = ""
       THEN /\ resp' = Failure("Register", 400, "NameEmpty")
            /\ UNCHANGED agents
     ELSE IF existing # 0
       THEN /\ agents' = [agents EXCEPT ![existing].hostname = req.hostname,
                                        ![existing].version = req.version,
                                        ![existing].ip = ip,
                                        ![existing].last_seen = now]
            /\ resp' = [Success("Register") EXCEPT !.agent_id = existing,
                                       !.status = agents[existing].status]
     ELSE IF TokenTaken(NoToken)
       \* Create inserts token = "": the unique index refuses a second one
       THEN /\ resp' = Failure("Register", 500, "DBError")
            /\ UNCHANGED agents
     ELSE /\ Len(agents) < MaxAgents
          /\ agents' = Append(agents, NewAgent(req, ip))
          /\ resp' = [Success("Register") EXCEPT !.agent_id = Len(agents) + 1,
                                     !.status = "pending"]

\* AgentController.Register and AgentService.Register up to the lookup of a
\* pending agent of the name: a call that finds one updates it and returns;
\* a call that finds none is in flight, about to create the row. The calls
\* in flight are told apart by a number
RegisterLookup(req, ip) ==
  LET existing == ExistingPending(req.name) IN
  /\ UNCHANGED <<tasks, ledgerVars, now, latestVersion, nextToken, codeVars,
                 deleting, beating, approving>>
  /\ IF req.name = ""
       THEN /\ resp' = Failure("Register", 400, "NameEmpty")
            /\ UNCHANGED <<agents, registering>>
     ELSE IF existing # 0
       THEN /\ agents' = [agents EXCEPT ![existing].hostname = req.hostname,
                                        ![existing].version = req.version,
                                        ![existing].ip = ip,
                                        ![existing].last_seen = now]
            /\ resp' = [Success("Register") EXCEPT !.agent_id = existing,
                                       !.status = agents[existing].status]
            /\ UNCHANGED registering
     ELSE /\ Cardinality(registering) < MaxCalls
          /\ registering' = registering \cup
               {[req |-> req, ip |-> ip, call |-> Min({c \in 1..MaxCalls :
                               \A r \in registering : r.call # c})]}
          /\ UNCHANGED <<agents, resp>>

\* AgentService.Register from the Create on, for a call whose lookup found
\* no pending agent of the name
RegisterCreate(r) ==
  /\ r \in registering
  /\ registering' = registering \ {r}
  /\ UNCHANGED <<tasks, ledgerVars, now, latestVersion, nextToken, codeVars,
                 deleting, beating, approving>>
  /\ IF TokenTaken(NoToken)
       THEN /\ resp' = Failure("Register", 500, "DBError")
            /\ UNCHANGED agents
     ELSE /\ Len(agents) < MaxAgents
          /\ agents' = Append(agents, NewAgent(r.req, r.ip))
          /\ resp' = [Success("Register") EXCEPT !.agent_id = Len(agents) + 1,
                                     !.status = "pending"]

\* Approve without the check of the current status
ApproveAnyStatus(id) ==
  LET agent == GetByID(id) IN
  /\ UNCHANGED <<tasks, ledgerVars, now, latestVersion, codeVars, flightVars>>
  /\ IF agent = 0
       THEN /\ resp' = Failure("Approve", 400, "AgentNotFound")
            /\ UNCHANGED agentVars
     ELSE /\ nextToken <= MaxTokens
          /\ agents' = [agents EXCEPT ![agent].token = generateToken,
                                      ![agent].status = "online",
                                      ![agent].last_seen = now]
          /\ nextToken' = nextToken + 1
          /\ resp' = [Success("Approve") EXCEPT !.agent_id = agent,
                                     !.name = agents[agent].name,
                                     !.status = "online",
                                     !.token = generateToken,
                                     !.has_token = TRUE]

\* PUT approve: AgentController.Approve, AgentService.Approve
Approve(id) ==
  LET agent == GetByID(id) IN
  /\ UNCHANGED <<tasks, ledgerVars, now, latestVersion, codeVars, flightVars>>
  /\ IF agent = 0
       THEN /\ resp' = Failure("Approve", 400, "AgentNotFound")
            /\ UNCHANGED agentVars
     ELSE IF agents[agent].status # "pending"
       THEN /\ resp' = Failure("Approve", 400, "NotPending")
            /\ UNCHANGED agentVars
     ELSE /\ nextToken <= MaxTokens
          /\ agents' = [agents EXCEPT ![agent].token = generateToken,
                                      ![agent].status = "online",
                                      ![agent].last_seen = now]
          /\ nextToken' = nextToken + 1
          /\ resp' = [Success("Approve") EXCEPT !.agent_id = agent,
                                     !.name = agents[agent].name,
                                     !.status = "online",
                                     !.token = generateToken,
                                     !.has_token = TRUE]

\* AgentService.Approve up to the check of the status: GetByID and the two
\* refusals. A call that finds the agent pending is in flight, about to
\* write
ApproveRead(id) ==
  LET agent == GetByID(id) IN
  /\ UNCHANGED <<agents, tasks, ledgerVars, now, latestVersion, nextToken,
                 codeVars, deleting, beating, registering>>
  /\ IF agent = 0
       THEN /\ resp' = Failure("Approve", 400, "AgentNotFound")
            /\ UNCHANGED approving
     ELSE IF agents[agent].status # "pending"
       THEN /\ resp' = Failure("Approve", 400, "NotPending")
            /\ UNCHANGED approving
     ELSE /\ Cardinality(approving) < MaxCalls
          /\ approving' = approving \cup
               {[id |-> agent, call |-> Min({c \in 1..MaxCalls :
                               \A r \in approving : r.call # c})]}
          /\ UNCHANGED resp

\* AgentService.Approve from generateToken on: Updates of token, status and
\* last_seen on the row with the id read earlier, whatever its status by
\* now; a row removed in the meantime is not matched, and the call returns
\* its token all the same
ApproveWrite(a) ==
  /\ a \in approving
  /\ approving' = approving \ {a}
  /\ nextToken <= MaxTokens
  /\ agents' = IF Visible(a.id)
                 THEN [agents EXCEPT ![a.id].token = generateToken,
                                     ![a.id].status = "online",
                                     ![a.id].last_seen = now]
                 ELSE agents
  /\ nextToken' = nextToken + 1
  /\ resp' = [Success("Approve") EXCEPT !.agent_id = a.id,
                                        !.name = agents[a.id].name,
                                        !.status = "online",
                                        !.token = generateToken,
                                        !.has_token = TRUE]
  /\ UNCHANGED <<tasks, ledgerVars, now, latestVersion, codeVars,
                 deleting, beating, registering>>

\* soft delete of the visible row with this primary key, if any
SoftDelete(id) ==
  IF Visible(id) THEN [agents EXCEPT ![id].deleted = TRUE] ELSE agents

\* Reject refusing an agent that tasks reference, as Delete does
RejectChecked(id) ==
  /\ UNCHANGED <<tasks, ledgerVars, now, latestVersion, nextToken, codeVars, flightVars>>
  /\ IF \E t \in DOMAIN tasks : tasks[t].agent_id = id
       THEN /\ resp' = Failure("Reject", 400, "HasTasks")
            /\ UNCHANGED agents
     ELSE /\ agents' = SoftDelete(id)
          /\ resp' = Success("Reject")

\* PUT reject: AgentController.Reject, AgentService.Reject
Reject(id) ==
  /\ agents' = SoftDelete(id)
  /\ resp' = Success("Reject")
  /\ UNCHANGED <<tasks, ledgerVars, now, latestVersion, nextToken, codeVars, flightVars>>

\* Update taking a disabled agent offline
UpdateOffline(id, req) ==
  /\ UNCHANGED <<tasks, ledgerVars, now, latestVersion, nextToken, codeVars, flightVars>>
  /\ IF req.name = ""
       THEN /\ resp' = Failure("Update", 400, "BadParams")
            /\ UNCHANGED agents
     ELSE /\ agents' = IF Visible(id)
                         THEN [agents EXCEPT ![id].name = req.name,
                                             ![id].description = req.description,
                                             ![id].enabled = req.enabled,
                                             ![id].status =
                                               IF req.enabled THEN @ ELSE "offline"]
                         ELSE agents
          /\ resp' = Success("Update")

\* PUT update: AgentController.Update, AgentService.Update
Update(id, req) ==
  /\ UNCHANGED <<tasks, ledgerVars, now, latestVersion, nextToken, codeVars, flightVars>>
  /\ IF req.name = ""
       THEN /\ resp' = Failure("Update", 400, "BadParams")
            /\ UNCHANGED agents
     ELSE /\ agents' = IF Visible(id)
                         THEN [agents EXCEPT ![id].name = req.name,
                                             ![id].description = req.description,
                                             ![id].enabled = req.enabled]
                         ELSE agents
          /\ resp' = Success("Update")

\* Delete without the count of the referencing tasks
DeleteUnchecked(id) ==
  /\ UNCHANGED <<tasks, ledgerVars, now, latestVersion, nextToken, codeVars, flightVars>>
  /\ agents' = SoftDelete(id)
  /\ resp' = Success("Delete")

\* DELETE: AgentController.Delete, AgentService.Delete
Delete(id) ==
  LET count == Cardinality({t \in DOMAIN tasks : tasks[t].agent_id = id}) IN
  /\ UNCHANGED <<tasks, ledgerVars, now, latestVersion, nextToken, codeVars, flightVars>>
  /\ IF count > 0
       THEN /\ resp' = Failure("Delete", 400, "HasTasks")
            /\ UNCHANGED agents
     ELSE /\ agents' = SoftDelete(id)
          /\ resp' = Success("Delete")

\* AgentService.Delete, first statement: the count of the tasks that
\* reference the agent. A positive count ends the call with the error; a
\* zero count leaves the call in flight, about to issue the delete
DeleteCheck(id) ==
  LET count == Cardinality({t \in DOMAIN tasks : tasks[t].agent_id = id}) IN
  /\ id \notin deleting
  /\ UNCHANGED <<agents, tasks, ledgerVars, now, latestVersion, nextToken,
                 codeVars, beating, registering, approving>>
  /\ IF count > 0
       THEN /\ resp' = Failure("Delete", 400, "HasTasks")
            /\ UNCHANGED deleting
     ELSE /\ deleting' = deleting \cup {id}
          /\ UNCHANGED resp

\* AgentService.Delete, second statement: database.DB.Delete of the agent,
\* issued by a call whose count came back zero
DeleteCommit(id) ==
  /\ id \in deleting
  /\ agents' = SoftDelete(id)
  /\ resp' = Success("Delete")
  /\ deleting' = deleting \ {id}
  /\ UNCHANGED <<tasks, ledgerVars, now, latestVersion, nextToken, codeVars,
                 beating, registering, approving>>

\* RegenerateToken bringing the agent back online as an approval does
RegenerateTokenRevives(id) ==
  /\ nextToken <= MaxTokens
  /\ agents' = IF Visible(id) THEN [agents EXCEPT ![id].token = generateToken,
                                                  ![id].status = "online",
                                                  ![id].last_seen = now]
                              ELSE agents
  /\ nextToken' = nextToken + 1
  /\ resp' = [Success("RegenerateToken") EXCEPT !.token = generateToken, !.has_token = TRUE]
  /\ UNCHANGED <<tasks, ledgerVars, now, latestVersion, codeVars, flightVars>>

\* POST token: AgentController.RegenerateToken, AgentService.RegenerateToken
RegenerateToken(id) ==
  /\ nextToken <= MaxTokens
  /\ agents' = IF Visible(id) THEN [agents EXCEPT ![id].token = generateToken]
                              ELSE agents
  /\ nextToken' = nextToken + 1
  /\ resp' = [Success("RegenerateToken") EXCEPT !.token = generateToken, !.has_token = TRUE]
  /\ UNCHANGED <<tasks, ledgerVars, now, latestVersion, codeVars, flightVars>>

\* every field of the heartbeat body overwrites its column
KeepNew(old, new) == new

\* a field of the heartbeat body overwrites the column only when it is not empty
Keep(old, new) == IF new # "" THEN new ELSE old

\* AgentService.Heartbeat past its two checks: the columns written for row id
HeartbeatUpdates(id, ip, req) ==
  [agents EXCEPT ![id].status = "online",
                 ![id].last_seen = now,
                 ![id].ip = ip,
                 ![id].version = Keep(@, req.version),
                 ![id].build_time = Keep(@, req.build_time),
                 ![id].hostname = Keep(@, req.hostname),
                 ![id].os = Keep(@, req.os),
                 ![id].arch = Keep(@, req.arch)]

\* needUpdate without the two checks for the empty string
NeedUpdateLoose(version) == version # latestVersion

\* AgentController.Heartbeat: needUpdate
NeedUpdate(version) ==
  latestVersion # "" /\ version # "" /\ version # latestVersion

\* the flag cleared by every heartbeat that finds it set
ConsumedAlways(forceUpdate, needUpdate) == forceUpdate

\* AgentController.Heartbeat: the condition under which it calls
\* ClearForceUpdate
Consumed(forceUpdate, needUpdate) == forceUpdate /\ needUpdate

\* POST heartbeat: AgentController.Heartbeat, AgentService.Heartbeat,
\* AgentService.ClearForceUpdate
Heartbeat(token, ip, req) ==
  LET agent == GetByToken(token)
      forceUpdate == agents[agent].force_update
      needUpdate == NeedUpdate(req.version)
      updated == HeartbeatUpdates(agent, ip, req)
  IN
  /\ UNCHANGED <<tasks, ledgerVars, now, latestVersion, nextToken, codeVars, flightVars>>
  /\ IF token = NoToken
       THEN /\ resp' = Failure("Heartbeat", 401, "MissingToken")
            /\ UNCHANGED agents
     ELSE IF agent = 0
       THEN /\ resp' = Failure("Heartbeat", 401, "InvalidToken")
            /\ UNCHANGED agents
     ELSE IF ~agents[agent].enabled
       THEN /\ resp' = Failure("Heartbeat", 401, "AgentDisabled")
            /\ UNCHANGED agents
     ELSE /\ agents' = IF Consumed(forceUpdate, needUpdate)
                         THEN [updated EXCEPT ![agent].force_update = FALSE]
                         ELSE updated
          /\ resp' = [Success("Heartbeat") EXCEPT !.agent_id = agent,
                                     !.name = agents[agent].name,
                                     !.need_update = needUpdate,
                                     !.force_update = forceUpdate,
                                     !.latest_version = latestVersion]

\* AgentService.Heartbeat up to and including time.Now(): the lookup by
\* token, the enabled check and the reading of the clock. A call that passes
\* the checks is in flight with the time it read; two calls in flight with
\* the same agent, time, address and request are one element of the set,
\* their writes being the same write
HeartbeatRead(token, ip, req) ==
  LET agent == GetByToken(token) IN
  /\ UNCHANGED <<agents, tasks, ledgerVars, now, latestVersion, nextToken,
                 codeVars, deleting, registering, approving>>
  /\ IF token = NoToken
       THEN /\ resp' = Failure("Heartbeat", 401, "MissingToken")
            /\ UNCHANGED beating
     ELSE IF agent = 0
       THEN /\ resp' = Failure("Heartbeat", 401, "InvalidToken")
            /\ UNCHANGED beating
     ELSE IF ~agents[agent].enabled
       THEN /\ resp' = Failure("Heartbeat", 401, "AgentDisabled")
            /\ UNCHANGED beating
     ELSE /\ Cardinality(beating) < MaxBeats
          /\ beating' = beating \cup
               {[agent |-> agent, at |-> now, ip |-> ip, req |-> req,
                 force_update |-> agents[agent].force_update]}
          /\ UNCHANGED resp

\* AgentService.Heartbeat from Updates(updates) on, and the rest of
\* AgentController.Heartbeat: the row with the agent's id gets the time the
\* call read earlier, whatever the row holds by now; a row deleted in the
\* meantime is not matched by the update
HeartbeatWrite(b) ==
  LET needUpdate == NeedUpdate(b.req.version)
      updated == [HeartbeatUpdates(b.agent, b.ip, b.req)
                    EXCEPT ![b.agent].last_seen = b.at]
  IN
  /\ b \in beating
  /\ beating' = beating \ {b}
  /\ agents' = IF ~Visible(b.agent) THEN agents
               ELSE IF Consumed(b.force_update, needUpdate)
                 THEN [updated EXCEPT ![b.agent].force_update = FALSE]
               ELSE updated
  /\ resp' = [Success("Heartbeat") EXCEPT !.agent_id = b.agent,
                                          !.name = agents[b.agent].name,
                                          !.need_update = needUpdate,
                                          !.force_update = b.force_update,
                                          !.latest_version = latestVersion]
  /\ UNCHANGED <<tasks, ledgerVars, now, latestVersion, nextToken, codeVars,
                 deleting, registering, approving>>

\* CheckStatus handing out whatever token the row holds
CheckStatusAnyToken(name, ip) ==
  LET agent == First({i \in AgentIds : /\ Visible(i)
                                        /\ agents[i].name = name
                                        /\ agents[i].ip = ip})
      withToken == agents[agent].token # NoToken
  IN
  /\ UNCHANGED <<tasks, ledgerVars, now, latestVersion, nextToken, codeVars, flightVars>>
  /\ IF agent = 0
       THEN /\ resp' = Failure("CheckStatus", 404, "NotRegistered")
            /\ UNCHANGED agents
     ELSE /\ agents' = [agents EXCEPT ![agent].last_seen = now]
          /\ resp' = [Success("CheckStatus") EXCEPT
                        !.agent_id = agent,
                        !.status = agents[agent].status,
                        !.token = IF withToken THEN agents[agent].token ELSE NoToken,
                        !.has_token = withToken]

\* POST status: AgentController.CheckStatus, AgentService.CheckPendingAgent
CheckStatus(name, ip) ==
  LET agent == First({i \in AgentIds : /\ Visible(i)
                                        /\ agents[i].name = name
                                        /\ agents[i].ip = ip})
      withToken == agents[agent].status # "pending" /\ agents[agent].token # NoToken
  IN
  /\ UNCHANGED <<tasks, ledgerVars, now, latestVersion, nextToken, codeVars, flightVars>>
  /\ IF agent = 0
       THEN /\ resp' = Failure("CheckStatus", 404, "NotRegistered")
            /\ UNCHANGED agents
     ELSE /\ agents' = [agents EXCEPT ![agent].last_seen = now]
          /\ resp' = [Success("CheckStatus") EXCEPT
                        !.agent_id = agent,
                        !.status = agents[agent].status,
                        !.token = IF withToken THEN agents[agent].token ELSE NoToken,
                        !.has_token = withToken]

\* the sweep without its status condition
StaleAnyStatus(i) ==
  /\ Visible(i)
  /\ agents[i].last_seen < now - OfflineWindow

\* the sweep passing over the agents that are disabled
StaleEnabledOnly(i) ==
  /\ Visible(i)
  /\ agents[i].status = "online"
  /\ agents[i].enabled
  /\ agents[i].last_seen < now - OfflineWindow

\* the rows UpdateOfflineAgents matches
Stale(i) ==
  /\ Visible(i)
  /\ agents[i].status = "online"
  /\ agents[i].last_seen < now - OfflineWindow

\* AgentService.UpdateOfflineAgents, run by the scheduler
UpdateOfflineAgents ==
  /\ agents' = [i \in AgentIds |->
                  IF Stale(i) THEN [agents[i] EXCEPT !.status = "offline"]
                              ELSE agents[i]]
  /\ UNCHANGED <<tasks, ledgerVars, now, latestVersion, nextToken, resp, codeVars, flightVars>>

\* AgentService.SetForceUpdate / ClearForceUpdate: one column of row id
WriteForceUpdate(id, flag) ==
  IF Visible(id) THEN [agents EXCEPT ![id].force_update = flag] ELSE agents

\* POST force-update: AgentController.ForceUpdate, AgentService.SetForceUpdate
ForceUpdate(id) ==
  /\ agents' = WriteForceUpdate(id, TRUE)
  /\ resp' = Success("ForceUpdate")
  /\ UNCHANGED <<tasks, ledgerVars, now, latestVersion, nextToken, codeVars, flightVars>>

----------------------------------------------------------------------------
(* The task catalog, as this code reads it *)

NewTask(agent, enabled, config) ==
  [agent_id |-> agent, enabled |-> enabled, clean_config |-> config, last_run |-> 0]

\* an operator creates a task, for local execution (agent 0) or for an agent
CreateTask(agent, enabled, config) ==
  /\ Len(tasks) < MaxTasks
  /\ tasks' = Append(tasks, NewTask(agent, enabled, config))
  /\ UNCHANGED <<agents, ledgerVars, now, latestVersion, nextToken, resp, codeVars, flightVars>>

\* an operator moves a task to another agent, or back to local execution
SetTaskAgent(t, agent) ==
  /\ t \in DOMAIN tasks
  /\ tasks[t].agent_id # agent
  /\ tasks' = [tasks EXCEPT ![t].agent_id = agent]
  /\ UNCHANGED <<agents, ledgerVars, now, latestVersion, nextToken, resp, codeVars, flightVars>>

\* Update("last_run", time.Now()) on the task with this id, if there is one
TouchLastRun(t) ==
  IF t \in DOMAIN tasks THEN [tasks EXCEPT ![t].last_run = now] ELSE tasks

\* SendStatsService.IncrementStats
IncrementStats(t, status) ==
  IF t \in DOMAIN stats /\ status \in {"success", "failed"}
    THEN [stats EXCEPT ![t][status] = @ + 1]
    ELSE stats

\* utils.CompressToBase64: the stored form of the output, or an error
CompressToBase64(output, ok) ==
  [data |-> IF ok THEN "z:" \o output ELSE "", failed |-> ~ok]

----------------------------------------------------------------------------
(* AgentService and AgentController: dispatch *)

\* the tasks of the agent, disabled ones too
GetTasksOfAll(agent) ==
  {t \in DOMAIN tasks : tasks[t].agent_id = agent}

\* AgentService.GetTasks
GetTasksOf(agent) ==
  {t \in DOMAIN tasks : tasks[t].agent_id = agent /\ tasks[t].enabled}

\* GetTasks without the check of the enabled flag
GetTasksDisabledToo(token) ==
  LET agent == GetByToken(token) IN
  /\ UNCHANGED <<agents, tasks, ledgerVars, now, latestVersion, nextToken, codeVars, flightVars>>
  /\ resp' = IF token = NoToken THEN Failure("GetTasks", 401, "MissingToken")
             ELSE IF agent = 0 THEN Failure("GetTasks", 401, "InvalidToken")
             ELSE [Success("GetTasks") EXCEPT !.agent_id = agent,
                                              !.tasks = GetTasksOf(agent)]

\* GET tasks: AgentController.GetTasks
GetTasks(token) ==
  LET agent == GetByToken(token) IN
  /\ UNCHANGED <<agents, tasks, ledgerVars, now, latestVersion, nextToken, codeVars, flightVars>>
  /\ resp' = IF token = NoToken THEN Failure("GetTasks", 401, "MissingToken")
             ELSE IF agent = 0 THEN Failure("GetTasks", 401, "InvalidToken")
             ELSE IF ~agents[agent].enabled THEN Failure("GetTasks", 403, "AgentDisabled")
             ELSE [Success("GetTasks") EXCEPT !.agent_id = agent,
                                              !.tasks = GetTasksOf(agent)]

\* the row AgentService.ReportResult creates
AgentTaskLog(result, compressed) ==
  [id |-> nextLogId, task_id |-> result.task_id, agent_id |-> result.agent_id,
   command |-> result.command, output |-> compressed, error |-> "",
   status |-> result.status, duration |-> result.duration,
   exit_code |-> result.exit_code, start_time |-> NullTime, end_time |-> NullTime,
   created_at |-> now]

\* AgentService.ReportResult aborting when the output cannot be compressed
RecordResultStrict(result, compressOk, createOk) ==
  LET compressed == CompressToBase64(result.output, compressOk) IN
  IF createOk /\ ~compressed.failed
    THEN /\ logs' = logs \cup {AgentTaskLog(result, compressed.data)}
         /\ nextLogId' = nextLogId + 1
         /\ tasks' = TouchLastRun(result.task_id)
         /\ stats' = IncrementStats(result.task_id, result.status)
         /\ resp' = Success("ReportResult")
    ELSE /\ resp' = Failure("ReportResult", 500, "DBError")
         /\ UNCHANGED <<logs, nextLogId, tasks, stats>>

\* ReportResult counting the run before the record is created
RecordResultStatsFirst(result, compressOk, createOk, touchOk, statsOk) ==
  LET compressed == CompressToBase64(result.output, compressOk)
      stored == IF compressed.failed THEN "" ELSE compressed.data
  IN
  /\ stats' = IF statsOk THEN IncrementStats(result.task_id, result.status)
                         ELSE stats
  /\ IF createOk
       THEN /\ logs' = logs \cup {AgentTaskLog(result, stored)}
            /\ nextLogId' = nextLogId + 1
            /\ tasks' = IF touchOk THEN TouchLastRun(result.task_id) ELSE tasks
            /\ resp' = Success("ReportResult")
     ELSE /\ resp' = Failure("ReportResult", 500, "DBError")
          /\ UNCHANGED <<logs, nextLogId, tasks>>

\* AgentService.ReportResult, statement by statement: Create, whose error is
\* returned; the update of last_run and IncrementStats, whose errors are
\* dropped. createOk, touchOk and statsOk say which statements the database
\* carries out
RecordResultSteps(result, compressOk, createOk, touchOk, statsOk) ==
  LET compressed == CompressToBase64(result.output, compressOk)
      stored == IF compressed.failed THEN "" ELSE compressed.data
  IN
  IF createOk
    THEN /\ logs' = logs \cup {AgentTaskLog(result, stored)}
         /\ nextLogId' = nextLogId + 1
         /\ tasks' = IF touchOk THEN TouchLastRun(result.task_id) ELSE tasks
         /\ stats' = IF statsOk
                       THEN IncrementStats(result.task_id, result.status)
                       ELSE stats
         /\ resp' = Success("ReportResult")
    ELSE /\ resp' = Failure("ReportResult", 500, "DBError")
         /\ UNCHANGED <<logs, nextLogId, tasks, stats>>

\* AgentService.ReportResult, answered by AgentController.ReportResult, with
\* the two later statements carried out
RecordResult(result, compressOk, createOk) ==
  RecordResultSteps(result, compressOk, createOk, TRUE, TRUE)

\* AgentService.ReportResult as AgentController.ReportResult calls it: the
\* result carries the id of an enabled agent found by its token
RecordAgentResult(result, compressOk, createOk, touchOk, statsOk) ==
  /\ Visible(result.agent_id)
  /\ agents[result.agent_id].enabled
  /\ agents[result.agent_id].token # NoToken
  /\ nextLogId <= MaxReports
  /\ RecordResultSteps(result, compressOk, createOk, touchOk, statsOk)
  /\ UNCHANGED <<agents, cleaning, now, latestVersion, nextToken, codeVars,
                 flightVars>>

\* ReportResult storing the agent id of the request body
ReportResultAsSent(token, result, compressOk, createOk) ==
  LET agent == GetByToken(token) IN
  /\ UNCHANGED <<agents, cleaning, now, latestVersion, nextToken, codeVars, flightVars>>
  /\ IF token = NoToken
       THEN /\ resp' = Failure("ReportResult", 401, "MissingToken")
            /\ UNCHANGED <<logs, nextLogId, tasks, stats>>
     ELSE IF agent = 0
       THEN /\ resp' = Failure("ReportResult", 401, "InvalidToken")
            /\ UNCHANGED <<logs, nextLogId, tasks, stats>>
     ELSE IF ~agents[agent].enabled
       THEN /\ resp' = Failure("ReportResult", 403, "AgentDisabled")
            /\ UNCHANGED <<logs, nextLogId, tasks, stats>>
     ELSE /\ nextLogId <= MaxReports
          /\ RecordResult(result, compressOk, createOk)

\* POST report: AgentController.ReportResult
ReportResult(token, result, compressOk, createOk) ==
  LET agent == GetByToken(token) IN
  /\ UNCHANGED <<agents, cleaning, now, latestVersion, nextToken, codeVars, flightVars>>
  /\ IF token = NoToken
       THEN /\ resp' = Failure("ReportResult", 401, "MissingToken")
            /\ UNCHANGED <<logs, nextLogId, tasks, stats>>
     ELSE IF agent = 0
       THEN /\ resp' = Failure("ReportResult", 401, "InvalidToken")
            /\ UNCHANGED <<logs, nextLogId, tasks, stats>>
     ELSE IF ~agents[agent].enabled
       THEN /\ resp' = Failure("ReportResult", 403, "AgentDisabled")
            /\ UNCHANGED <<logs, nextLogId, tasks, stats>>
     ELSE /\ nextLogId <= MaxReports
          /\ RecordResult([result EXCEPT !.agent_id = agent], compressOk, createOk)

----------------------------------------------------------------------------
(* TaskLogService: the execution ledger *)

\* TaskLogService.CreateEmptyLog
CreateEmptyLog(t, command) ==
  /\ nextLogId <= MaxLogs
  /\ logs' = logs \cup
       {[id |-> nextLogId, task_id |-> t, agent_id |-> 0, command |-> command,
         output |-> "", error |-> "", status |-> "running", duration |-> 0,
         exit_code |-> 0, start_time |-> now, end_time |-> NullTime,
         created_at |-> now]}
  /\ nextLogId' = nextLogId + 1
  /\ UNCHANGED <<agents, tasks, stats, cleaning, now, latestVersion, nextToken, resp, codeVars, flightVars>>

\* TaskLogService.CreateTaskLogFromLocalExecution: the record of a finished
\* local run, not yet saved; id is 0, or the id of the row to write over
LocalTaskLog(id, t, output, status, start, compressOk) ==
  LET compressed == CompressToBase64(output, compressOk) IN
  [id |-> id, task_id |-> t, agent_id |-> 0, command |-> "cmd",
   output |-> IF compressed.failed THEN "" ELSE compressed.data,
   error |-> "", status |-> status, duration |-> 5,
   exit_code |-> IF status = "success" THEN 0 ELSE 1,
   start_time |-> start, end_time |-> now, created_at |-> 0]

\* Updates(taskLog) with a struct: a column is written only when the field
\* is not the zero value of its type
NonZero(old, new, zero) == IF new = zero THEN old ELSE new

UpdatesOf(row, taskLog) ==
  [id |-> row.id,
   task_id |-> NonZero(row.task_id, taskLog.task_id, 0),
   agent_id |-> NonZero(row.agent_id, taskLog.agent_id, 0),
   command |-> NonZero(row.command, taskLog.command, ""),
   output |-> NonZero(row.output, taskLog.output, ""),
   error |-> NonZero(row.error, taskLog.error, ""),
   status |-> NonZero(row.status, taskLog.status, ""),
   duration |-> NonZero(row.duration, taskLog.duration, 0),
   exit_code |-> NonZero(row.exit_code, taskLog.exit_code, 0),
   start_time |-> NonZero(row.start_time, taskLog.start_time, NullTime),
   end_time |-> NonZero(row.end_time, taskLog.end_time, NullTime),
   created_at |-> row.created_at]

\* TaskLogService.SaveTaskLog: the table afterwards
SavedLogs(taskLog) ==
  IF taskLog.id > 0
    THEN {IF l.id = taskLog.id THEN UpdatesOf(l, taskLog) ELSE l : l \in logs}
    ELSE logs \cup {[taskLog EXCEPT !.id = nextLogId, !.created_at = now]}

\* TaskLogService.SaveTaskLog
SaveTaskLog(taskLog) ==
  /\ taskLog.id = 0 => nextLogId <= MaxLogs
  /\ logs' = SavedLogs(taskLog)
  /\ nextLogId' = IF taskLog.id > 0 THEN nextLogId ELSE nextLogId + 1
  /\ tasks' = TouchLastRun(taskLog.task_id)

\* TaskLogService.UpdateTaskDuration
UpdateTaskDuration(logID, duration) ==
  /\ logs' = {IF l.id = logID THEN [l EXCEPT !.duration = duration] ELSE l : l \in logs}
  /\ UNCHANGED <<agents, tasks, nextLogId, stats, cleaning, now, latestVersion,
                 nextToken, resp, codeVars, flightVars>>

\* TaskLogService.ProcessTaskCompletion: save, count, and start the cleanup
\* of the task's old logs in a goroutine of its own
ProcessTaskCompletion(taskLog) ==
  /\ SaveTaskLog(taskLog)
  /\ stats' = IncrementStats(taskLog.task_id, taskLog.status)
  /\ cleaning' = cleaning \cup {taskLog.task_id}
  /\ UNCHANGED <<agents, now, latestVersion, nextToken, resp, codeVars, flightVars>>

\* json.Unmarshal of the clean_config column into a CleanConfig
ParseCleanConfig(config) ==
  [failed |-> config.text # "json", type |-> config.type, keep |-> config.keep]

\* the count policy with Offset(keep): the boundary one row too low
BoundaryLogOff(t, keep) ==
  LET ids == {l.id : l \in {m \in logs : m.task_id = t}}
      atOffset == {i \in ids : Cardinality({k \in ids : k > i}) = keep}
  IN IF atOffset = {} THEN 0 ELSE CHOOSE i \in atOffset : TRUE

\* the boundary row of the count policy: Order("id DESC").Offset(keep - 1)
\* .Limit(1).First(), 0 when there are fewer than keep rows
BoundaryLog(t, keep) ==
  LET ids == {l.id : l \in {m \in logs : m.task_id = t}}
      atOffset == {i \in ids : Cardinality({k \in ids : k > i}) = keep - 1}
  IN IF atOffset = {} THEN 0 ELSE CHOOSE i \in atOffset : TRUE

\* the day policy deleting by age whatever the task
ExpiredLogsAnyTask(t, keep) ==
  {l \in logs : l.created_at < now - keep * MinutesPerDay}

\* the rows the day policy deletes: created before now minus keep days
ExpiredLogs(t, keep) ==
  {l \in logs : l.task_id = t /\ l.created_at < now - keep * MinutesPerDay}

\* CleanTaskLogs without the return on config.Keep <= 0
CleanedKeepUnchecked(t) ==
  IF t \notin DOMAIN tasks THEN {}
  ELSE IF tasks[t].clean_config.text = "empty" THEN {}
  ELSE LET config == ParseCleanConfig(tasks[t].clean_config) IN
    IF config.failed THEN {}
    ELSE IF config.type = "day" THEN ExpiredLogs(t, config.keep)
    ELSE IF config.type = "count"
      THEN LET boundaryLog == BoundaryLog(t, config.keep) IN
           IF boundaryLog = 0 THEN {}
           ELSE {l \in logs : l.task_id = t /\ l.id < boundaryLog}
    ELSE {}

\* the rows TaskLogService.CleanTaskLogs deletes for task t
Cleaned(t) ==
  IF t \notin DOMAIN tasks THEN {}
  ELSE IF tasks[t].clean_config.text = "empty" THEN {}
  ELSE LET config == ParseCleanConfig(tasks[t].clean_config) IN
    IF config.failed THEN {}
    ELSE IF config.keep <= 0 THEN {}
    ELSE IF config.type = "day" THEN ExpiredLogs(t, config.keep)
    ELSE IF config.type = "count"
      THEN LET boundaryLog == BoundaryLog(t, config.keep) IN
           IF boundaryLog = 0 THEN {}
           ELSE {l \in logs : l.task_id = t /\ l.id < boundaryLog}
    ELSE {}

\* TaskLogService.CleanTaskLogs, in the goroutine ProcessTaskCompletion
\* started; goroutines started for the same task and not yet run are one
\* entry of cleaning, which the run may or may not be the last of
CleanTaskLogs(t) ==
  /\ t \in cleaning
  /\ logs' = logs \ Cleaned(t)
  /\ cleaning' \in {cleaning, cleaning \ {t}}
  /\ UNCHANGED <<agents, tasks, nextLogId, stats, now, latestVersion, nextToken,
                 resp, codeVars, flightVars>>

----------------------------------------------------------------------------
(* The registration codes. The service that issues and redeems them is not *)
(* among the sources; it is modelled from the design: a lookup that checks *)
(* the code is redeemable, then a compare-and-increment at the storage     *)
(* level that creates the agent in the same step.                          *)

\* exhaustion that allows one use more than max-uses
ExhaustedLate(c) == c.max_uses > 0 /\ c.used_count > c.max_uses

\* a code is redeemable iff it is neither exhausted nor expired
Exhausted(c) == c.max_uses > 0 /\ c.used_count >= c.max_uses
Expired(c) == c.expires_at > 0 /\ c.expires_at <= now

\* CreateCode(remark, maxUses, expiresAt); expiresAt 0 is no expiry
CreateCode(maxUses, expiresAt) ==
  /\ Len(regCodes) < MaxCodes
  /\ regCodes' = Append(regCodes, [max_uses |-> maxUses, used_count |-> 0,
                                   expires_at |-> expiresAt])
  /\ UNCHANGED <<agents, tasks, ledgerVars, now, latestVersion, nextToken, resp,
                 redeemers, flightVars>>

\* Redeem(code), first step: look the code up and check it is redeemable
RedeemCheck(code, name) ==
  LET result == IF code \notin DOMAIN regCodes THEN "NotFound"
                ELSE IF Expired(regCodes[code]) THEN "Expired"
                ELSE IF Exhausted(regCodes[code]) THEN "Exhausted"
                ELSE ""
  IN
  /\ Len(redeemers) < MaxRedeems
  /\ redeemers' = Append(redeemers,
       [code |-> code, name |-> name, result |-> result, agent_id |-> 0,
        seen |-> IF code \in DOMAIN regCodes THEN regCodes[code].used_count ELSE 0,
        done |-> result # ""])
  /\ UNCHANGED <<agents, tasks, ledgerVars, now, latestVersion, nextToken, resp,
                 regCodes, flightVars>>

\* the agent a redemption creates: online, with a token, no approval
RedeemedAgent(name) ==
  [name |-> name, token |-> generateToken, description |-> "", status |-> "online",
   last_seen |-> now, ip |-> "", version |-> "", build_time |-> "",
   hostname |-> "", os |-> "", arch |-> "",
   force_update |-> FALSE, enabled |-> TRUE, deleted |-> FALSE]

\* the second step without the comparison: increment whatever the count is
RedeemClaimUnchecked(r) ==
  /\ r \in DOMAIN redeemers
  /\ ~redeemers[r].done
  /\ Len(agents) < MaxAgents
  /\ nextToken <= MaxTokens
  /\ regCodes' = [regCodes EXCEPT ![redeemers[r].code].used_count = @ + 1]
  /\ agents' = Append(agents, RedeemedAgent(redeemers[r].name))
  /\ nextToken' = nextToken + 1
  /\ redeemers' = [redeemers EXCEPT ![r].done = TRUE, ![r].result = "ok",
                                    ![r].agent_id = Len(agents) + 1]
  /\ UNCHANGED <<tasks, ledgerVars, now, latestVersion, resp, flightVars>>

\* Redeem(code), second step: the compare-and-increment, atomic with the
\* creation of the agent; a code that has expired or whose count has reached
\* max-uses meanwhile fails
RedeemClaim(r) ==
  /\ r \in DOMAIN redeemers
  /\ ~redeemers[r].done
  /\ UNCHANGED <<tasks, ledgerVars, now, latestVersion, resp, flightVars>>
  /\ IF Expired(regCodes[redeemers[r].code])
       THEN /\ redeemers' = [redeemers EXCEPT ![r].done = TRUE,
                                              ![r].result = "Expired"]
            /\ UNCHANGED <<agents, nextToken, regCodes>>
     ELSE IF Exhausted(regCodes[redeemers[r].code])
       THEN /\ redeemers' = [redeemers EXCEPT ![r].done = TRUE,
                                              ![r].result = "Exhausted"]
            /\ UNCHANGED <<agents, nextToken, regCodes>>
       ELSE /\ Len(agents) < MaxAgents
            /\ nextToken <= MaxTokens
            /\ regCodes' = [regCodes EXCEPT ![redeemers[r].code].used_count = @ + 1]
            /\ agents' = Append(agents, RedeemedAgent(redeemers[r].name))
            /\ nextToken' = nextToken + 1
            /\ redeemers' = [redeemers EXCEPT ![r].done = TRUE, ![r].result = "ok",
                                              ![r].agent_id = Len(agents) + 1]

----------------------------------------------------------------------------
(* The environment: the clock, the published agent version, the task catalog *)

Tick ==
  /\ now < MaxNow
  /\ now' = now + 1
  /\ UNCHANGED <<agents, tasks, ledgerVars, latestVersion, nextToken, resp, codeVars, flightVars>>

\* a day passes
TickDay ==
  /\ now < MaxDays * MinutesPerDay
  /\ now' = now + MinutesPerDay
  /\ UNCHANGED <<agents, tasks, ledgerVars, latestVersion, nextToken, resp, codeVars, flightVars>>

\* build-agent writes version.txt, which GetLatestVersion reads
PublishVersion(v) ==
  /\ latestVersion' = v
  /\ UNCHANGED <<agents, tasks, ledgerVars, now, nextToken, resp, codeVars, flightVars>>

----------------------------------------------------------------------------
(* The registry: every operation of the management surface and of the     *)
(* agent API, the sweep and the clock                                      *)

Next ==
  \/ \E req \in RegisterReqs : Register(req, "10.0.0.1")
  \/ \E id \in 1..(MaxAgents + 1) : Approve(id)
  \/ \E id \in 1..(MaxAgents + 1) : Reject(id)
  \/ \E id \in 1..(MaxAgents + 1), req \in UpdateReqs : Update(id, req)
  \/ \E id \in 1..(MaxAgents + 1) : Delete(id)
  \/ \E id \in 1..(MaxAgents + 1) : RegenerateToken(id)
  \/ \E token \in 0..MaxTokens : Heartbeat(token, "10.0.0.1", SameHeartbeat)
  \/ \E name \in Names, ip \in IPs : CheckStatus(name, ip)
  \/ UpdateOfflineAgents
  \/ Tick

Spec == Init /\ [][Next]_vars

----------------------------------------------------------------------------
(* Heartbeats with every kind of body, against agents that are registered, *)
(* approved, disabled and enabled again                                    *)

NextHeartbeat ==
  \/ Register([name |-> "w1", hostname |-> "h1", version |-> "1.0"], "10.0.0.1")
  \/ \E id \in 1..(MaxAgents + 1) : Approve(id)
  \/ \E id \in 1..(MaxAgents + 1), req \in UpdateReqs : Update(id, req)
  \/ \E token \in 0..MaxTokens, ip \in IPs, req \in HeartbeatReqs : Heartbeat(token, ip, req)
  \/ Tick

SpecHeartbeat == Init /\ [][NextHeartbeat]_vars

----------------------------------------------------------------------------
(* Removal of agents: agents with tasks assigned and results reported are  *)
(* deleted or rejected, and their tokens and names are used afterwards     *)

FirstRegistration == [name |-> "w1", hostname |-> "h1", version |-> "1.0"]

NextDelete ==
  \/ Register(FirstRegistration, "10.0.0.1")
  \/ \E id \in 1..(MaxAgents + 1) : Approve(id)
  \/ \E a \in 0..Len(agents) : CreateTask(a, TRUE, NoCleanConfig)
  \/ \E t \in 1..MaxTasks, a \in 0..Len(agents) : SetTaskAgent(t, a)
  \/ \E token \in 0..MaxTokens :
       ReportResult(token, ResultOf(1, 0, "success", "out"), TRUE, TRUE)
  \/ \E token \in 0..MaxTokens : Heartbeat(token, "10.0.0.1", SameHeartbeat)
  \/ CheckStatus("w1", "10.0.0.1")
  \/ \E id \in 1..(MaxAgents + 1) : Delete(id)
  \/ \E id \in 1..(MaxAgents + 1) : Reject(id)

SpecDelete == Init /\ [][NextDelete]_vars

\* Delete as the two statements it issues, next to the assignment of tasks
\* to agents that exist at the time of the assignment
NextDeleteRace ==
  \/ \E req \in RepeatedReqs : Register(req, "10.0.0.1")
  \/ \E id \in 1..MaxAgents : Approve(id)
  \/ \E a \in {0} \cup {i \in AgentIds : Visible(i)} :
       CreateTask(a, TRUE, NoCleanConfig)
  \/ \E t \in 1..MaxTasks, a \in {0} \cup {i \in AgentIds : Visible(i)} :
       SetTaskAgent(t, a)
  \/ \E token \in 0..MaxTokens : Heartbeat(token, "10.0.0.1", SameHeartbeat)
  \/ \E id \in 1..MaxAgents : DeleteCheck(id)
  \/ \E id \in 1..MaxAgents : DeleteCommit(id)

SpecDeleteRace == Init /\ [][NextDeleteRace]_vars

\* Heartbeat as the reading of the clock and the later write, for calls of
\* one agent that overlap in time
NextHeartbeatRace ==
  \/ Register(FirstRegistration, "10.0.0.1")
  \/ Approve(1)
  \/ \E req \in SwitchReqs : Update(1, req)
  \/ \E token \in 0..MaxTokens, ip \in IPs :
       HeartbeatRead(token, ip, SameHeartbeat)
  \/ \E b \in beating : HeartbeatWrite(b)
  \/ Tick

SpecHeartbeatRace == Init /\ [][NextHeartbeatRace]_vars

\* The ledger operations called with the id of any stored record, as their
\* signatures allow: the record to write over and the log whose duration is
\* updated are named by id alone. The count of the completions written over
\* stored records is capped
NextLedger ==
  \/ CreateTask(0, TRUE, CleanConfigOf("count", 1))
  \/ CreateEmptyLog(1, "cmd")
  \/ ProcessTaskCompletion(LocalTaskLog(0, 1, "out", "success", now, TRUE))
  \/ \E l \in logs, status \in {"success", "failed"} :
       /\ stats[1].success + stats[1].failed < MaxLogs
       /\ ProcessTaskCompletion(
            LocalTaskLog(l.id, l.task_id, "out", status, l.start_time, TRUE))
  \/ \E l \in logs : UpdateTaskDuration(l.id, 7)
  \/ CleanTaskLogs(1)

SpecLedger == Init /\ [][NextLedger]_vars

\* the status strings of a request body: gin binds any JSON string into
\* AgentTaskResult.Status, the field carrying no binding rule
SubmittedStatuses == {"success", "failed", "running", "", "timeout"}

\* ReportResult with every status string an agent can submit
NextReportStatus ==
  \/ Register(FirstRegistration, "10.0.0.1")
  \/ Approve(1)
  \/ CreateTask(0, TRUE, NoCleanConfig)
  \/ \E token \in 0..MaxTokens, status \in SubmittedStatuses,
        createOk \in BOOLEAN :
       ReportResult(token, ResultOf(1, 0, status, "out"), TRUE, createOk)

SpecReportStatus == Init /\ [][NextReportStatus]_vars

\* the service's ReportResult with each of its three statements succeeding
\* or failing
NextRecord ==
  \/ Register(FirstRegistration, "10.0.0.1")
  \/ Approve(1)
  \/ CreateTask(0, TRUE, NoCleanConfig)
  \/ \E t \in 1..MaxTasks, status \in {"success", "failed"},
        createOk, touchOk, statsOk \in BOOLEAN :
       RecordAgentResult(ResultOf(t, 1, status, "out"), TRUE,
                         createOk, touchOk, statsOk)
  \/ Tick

SpecRecord == Init /\ [][NextRecord]_vars

\* Register as its lookup and its later Create, for calls that overlap in
\* time, next to the operations of the administrator on the agents
NextRegisterRace ==
  \/ \E req \in RepeatedReqs : RegisterLookup(req, "10.0.0.1")
  \/ \E r \in registering : RegisterCreate(r)
  \/ \E id \in 1..MaxAgents : Approve(id)
  \/ \E id \in 1..MaxAgents : RegenerateToken(id)
  \/ \E id \in 1..MaxAgents : Reject(id)

SpecRegisterRace == Init /\ [][NextRegisterRace]_vars

\* Approve as its check and its later write, for calls that overlap in
\* time, and the agent using the tokens it is given
NextApproveRace ==
  \/ Register(FirstRegistration, "10.0.0.1")
  \/ \E id \in 1..MaxAgents : ApproveRead(id)
  \/ \E a \in approving : ApproveWrite(a)
  \/ \E token \in 0..MaxTokens : Heartbeat(token, "10.0.0.1", SameHeartbeat)
  \/ Tick

SpecApproveRace == Init /\ [][NextApproveRace]_vars

\* agents that are approved and then removed, by Delete or by Reject, while
\* their tokens go on being presented and the sweep goes on running
NextRemoved ==
  \/ Register(FirstRegistration, "10.0.0.1")
  \/ \E id \in 1..MaxAgents : Approve(id)
  \/ \E id \in 1..MaxAgents : Delete(id)
  \/ \E id \in 1..MaxAgents : Reject(id)
  \/ \E token \in 0..MaxTokens : Heartbeat(token, "10.0.0.1", SameHeartbeat)
  \/ \E token \in 0..MaxTokens : GetTasks(token)
  \/ \E token \in 0..MaxTokens :
       ReportResult(token, ResultOf(1, 0, "success", "out"), TRUE, TRUE)
  \/ UpdateOfflineAgents
  \/ Tick

SpecRemoved == Init /\ [][NextRemoved]_vars

\* one agent that is approved, switched off and on and heartbeats or not,
\* under a scheduler that keeps running the sweep: a sweep that has a row
\* to mark is not put off for ever
NextSweepLive ==
  \/ Register(FirstRegistration, "10.0.0.1")
  \/ Approve(1)
  \/ \E req \in SwitchReqs : Update(1, req)
  \/ \E token \in 0..MaxTokens : Heartbeat(token, "10.0.0.1", SameHeartbeat)
  \/ \E token \in 0..MaxTokens : GetTasks(token)
  \/ UpdateOfflineAgents
  \/ Tick

SpecSweepLive ==
  /\ Init
  /\ [][NextSweepLive]_vars
  /\ WF_vars(UpdateOfflineAgents)

\* the clean_config columns of the tasks: empty, not JSON, a type that is
\* neither day nor count, keep zero or negative, and the two policies
PolicyConfigs ==
  {NoCleanConfig, BadCleanConfig, CleanConfigOf("week", 1),
   CleanConfigOf("day", 0), CleanConfigOf("count", 0 - 1),
   CleanConfigOf("count", 1)}

\* cleanups of a first task under every kind of clean_config, of a second
\* task that keeps one log, and of a task that does not exist
NextRetainPolicy ==
  \/ \E config \in PolicyConfigs :
       /\ Len(tasks) = 0 \/ config = CleanConfigOf("count", 1)
       /\ CreateTask(0, TRUE, config)
  \/ \E t \in 1..(MaxTasks + 1) :
       /\ nextLogId < MaxLogs
       /\ ProcessTaskCompletion(LocalTaskLog(0, t, "out", "success", now, TRUE))
  \/ \E t \in 1..(MaxTasks + 1) : CleanTaskLogs(t)
  \/ Tick

SpecRetainPolicy == Init /\ [][NextRetainPolicy]_vars

\* reports of agents next to local runs of the same task; a cleanup started
\* by ProcessTaskCompletion in a goroutine of its own does run
NextReportLive ==
  \/ Register(FirstRegistration, "10.0.0.1")
  \/ Approve(1)
  \/ CreateTask(0, TRUE, CleanConfigOf("count", 1))
  \/ \E token \in 0..MaxTokens, t \in 1..MaxTasks :
       ReportResult(token, ResultOf(t, 0, "success", "out"), TRUE, TRUE)
  \/ \E t \in 1..MaxTasks :
       ProcessTaskCompletion(LocalTaskLog(0, t, "out", "success", now, TRUE))
  \/ \E t \in 1..MaxTasks : CleanTaskLogs(t)

SpecReportLive ==
  /\ Init
  /\ [][NextReportLive]_vars
  /\ \A t \in 1..MaxTasks : WF_vars(CleanTaskLogs(t))

----------------------------------------------------------------------------
(* Result reports, with the compression and the insert each succeeding or  *)
(* failing, for tasks that exist and for one that does not                 *)

Results ==
  { ResultOf(1, 0, "success", "out"), ResultOf(1, 1, "failed", "out"),
    ResultOf(2, 1, "failed", "out"), ResultOf(MaxTasks + 1, 0, "success", "out") }

NextReport ==
  \/ Register(FirstRegistration, "10.0.0.1")
  \/ \E id \in 1..(MaxAgents + 1) : Approve(id)
  \/ CreateTask(0, TRUE, NoCleanConfig)
  \/ \E token \in 0..MaxTokens, result \in Results, compressOk, createOk \in BOOLEAN :
       ReportResult(token, result, compressOk, createOk)

SpecReport == Init /\ [][NextReport]_vars

----------------------------------------------------------------------------
(* Retention by count: local runs of tasks that keep their last one or two *)
(* logs                                                                    *)

NextRetainCount ==
  \/ \E keep \in 1..2 : CreateTask(0, TRUE, CleanConfigOf("count", keep))
  \/ \E t \in 1..MaxTasks : CreateEmptyLog(t, "cmd")
  \/ \E t \in 1..MaxTasks :
       ProcessTaskCompletion(LocalTaskLog(0, t, "out", "success", now, TRUE))
  \/ \E l \in logs :
       /\ l.status = "running"
       /\ ProcessTaskCompletion(LocalTaskLog(l.id, l.task_id, "out", "failed", l.start_time, TRUE))
  \/ \E l \in logs : l.status = "running" /\ UpdateTaskDuration(l.id, 7)
  \/ \E t \in 1..MaxTasks : CleanTaskLogs(t)

SpecRetainCount == Init /\ [][NextRetainCount]_vars

----------------------------------------------------------------------------
(* Retention by age: local runs, over several days, of tasks that keep the *)
(* logs of the last day or of the last two                                 *)

NextRetainDay ==
  \/ \E keep \in 1..2 : CreateTask(0, TRUE, CleanConfigOf("day", keep))
  \/ \E t \in 1..MaxTasks :
       ProcessTaskCompletion(LocalTaskLog(0, t, "out", "success", now, TRUE))
  \/ \E t \in 1..MaxTasks : CleanTaskLogs(t)
  \/ TickDay

SpecRetainDay == Init /\ [][NextRetainDay]_vars

----------------------------------------------------------------------------
(* Redemption: codes of one use or unlimited, with or without an expiry,   *)
(* and redemptions whose two steps interleave                              *)

NextRedeem ==
  \/ \E maxUses \in 0..1, expiresAt \in {0, 2} : CreateCode(maxUses, expiresAt)
  \/ \E code \in 1..(MaxCodes + 1), name \in Names : RedeemCheck(code, name)
  \/ \E r \in 1..MaxRedeems : RedeemClaim(r)
  \/ Tick

SpecRedeem == Init /\ [][NextRedeem]_vars

----------------------------------------------------------------------------
(* Updates and dispatch: one approved agent, published versions, the forced *)
(* update flag and the tasks the agent is sent                             *)

NextUpdate ==
  \/ Register(FirstRegistration, "10.0.0.1")
  \/ \E id \in 1..MaxAgents : Approve(id)
  \/ \E id \in 1..(MaxAgents + 1) : ForceUpdate(id)
  \/ \E v \in Versions : PublishVersion(v)
  \/ \E token \in 0..MaxTokens, v \in Versions \cup {""} :
       Heartbeat(token, "10.0.0.1", [SameHeartbeat EXCEPT !.version = v])
  \/ \E a \in 0..MaxAgents, enabled \in BOOLEAN : CreateTask(a, enabled, NoCleanConfig)
  \/ \E token \in 0..MaxTokens : GetTasks(token)

SpecUpdate == Init /\ [][NextUpdate]_vars

----------------------------------------------------------------------------
(* Registration again and again: the same name from another host, version  *)
(* or address, before and after the approval                               *)

NextRegister ==
  \/ \E req \in RepeatedReqs, ip \in IPs : Register(req, ip)
  \/ \E id \in 1..MaxAgents : Approve(id)
  \/ \E id \in 1..MaxAgents : RegenerateToken(id)
  \/ \E id \in 1..MaxAgents : Reject(id)
  \/ Tick

SpecRegister == Init /\ [][NextRegister]_vars

----------------------------------------------------------------------------
(* The gateway: agents approved, disabled and enabled again, tokens        *)
(* replaced, and requests bearing every token, with results that name any  *)
(* agent as their author                                                   *)

NextGateway ==
  \/ Register(FirstRegistration, "10.0.0.1")
  \/ \E id \in 1..MaxAgents : Approve(id)
  \/ \E id \in 1..MaxAgents, req \in SwitchReqs : Update(id, req)
  \/ \E id \in 1..MaxAgents : RegenerateToken(id)
  \/ \E a \in 0..MaxAgents : CreateTask(a, TRUE, NoCleanConfig)
  \/ \E token \in 0..MaxTokens : GetTasks(token)
  \/ \E token \in 0..MaxTokens : Heartbeat(token, "10.0.0.1", SameHeartbeat)
  \/ \E token \in 0..MaxTokens, a \in 0..MaxAgents :
       ReportResult(token, ResultOf(1, a, "success", "out"), TRUE, TRUE)

SpecGateway == Init /\ [][NextGateway]_vars

----------------------------------------------------------------------------
(* Token rotation: an agent approved, seen, gone stale or disabled, whose  *)
(* token is replaced, and requests bearing the old and the new token       *)

NextRotate ==
  \/ Register(FirstRegistration, "10.0.0.1")
  \/ Approve(1)
  \/ \E req \in SwitchReqs : Update(1, req)
  \/ RegenerateToken(1)
  \/ UpdateOfflineAgents
  \/ \E token \in 0..MaxTokens : GetTasks(token)
  \/ \E token \in 0..MaxTokens : Heartbeat(token, "10.0.0.1", SameHeartbeat)
  \/ \E token \in 0..MaxTokens :
       ReportResult(token, ResultOf(1, 0, "success", "out"), TRUE, TRUE)
  \/ Tick

SpecRotate == Init /\ [][NextRotate]_vars

----------------------------------------------------------------------------
(* The status of one agent under every operation that reaches it: polled,  *)
(* approved, seen, gone stale, disabled, told to update, its token replaced *)

NextStatus ==
  \/ Register(FirstRegistration, "10.0.0.1")
  \/ Approve(1)
  \/ \E req \in SwitchReqs : Update(1, req)
  \/ RegenerateToken(1)
  \/ ForceUpdate(1)
  \/ CheckStatus("w1", "10.0.0.1")
  \/ UpdateOfflineAgents
  \/ \E token \in 0..MaxTokens : GetTasks(token)
  \/ \E token \in 0..MaxTokens : Heartbeat(token, "10.0.0.1", SameHeartbeat)
  \/ \E token \in 0..MaxTokens :
       ReportResult(token, ResultOf(1, 0, "success", "out"), TRUE, TRUE)
  \/ Tick

SpecStatus == Init /\ [][NextStatus]_vars

----------------------------------------------------------------------------
(* Task lists: tasks enabled and disabled, local, of one agent or another, *)
(* moved between them, fetched by agents online, offline or disabled       *)

NextTasks ==
  \/ Register(FirstRegistration, "10.0.0.1")
  \/ \E id \in 1..MaxAgents : Approve(id)
  \/ \E id \in 1..MaxAgents, req \in SwitchReqs : Update(id, req)
  \/ \E a \in 0..MaxAgents, enabled \in BOOLEAN : CreateTask(a, enabled, NoCleanConfig)
  \/ \E t \in 1..MaxTasks, a \in 0..MaxAgents : SetTaskAgent(t, a)
  \/ \E token \in 0..MaxTokens : GetTasks(token)
  \/ UpdateOfflineAgents
  \/ Tick

SpecTasks == Init /\ [][NextTasks]_vars

----------------------------------------------------------------------------
(* Rejection and deletion of agents pending, online and offline, with and  *)
(* without tasks                                                           *)

NextReject ==
  \/ Register(FirstRegistration, "10.0.0.1")
  \/ \E id \in 1..MaxAgents : Approve(id)
  \/ \E a \in 0..MaxAgents : CreateTask(a, TRUE, NoCleanConfig)
  \/ \E id \in 1..(MaxAgents + 1) : Reject(id)
  \/ \E id \in 1..(MaxAgents + 1) : Delete(id)
  \/ UpdateOfflineAgents
  \/ Tick

SpecReject == Init /\ [][NextReject]_vars

----------------------------------------------------------------------------
(* Claims *)

\* C1: in every reachable state every agent record has an empty token if and
\* only if its status is pending.
C1_TokenEmptyIffPending ==
  \A i \in AgentIds :
    Visible(i) => (agents[i].token = NoToken <=> agents[i].status = "pending")

\* C2: Approve(id) on an agent that is not pending fails with InvalidState
\* (the "not pending" message) and changes no agent; Approve on an unknown id
\* fails with NotFound (the "agent not found" message) and creates or changes
\* no record.
C2_ApproveNeedsPending ==
  [][resp'.op = "Approve" =>
     \A id \in 1..(MaxAgents + 1) :
       Approve(id) =>
         /\ (Visible(id) /\ agents[id].status # "pending") =>
              /\ resp'.code = 400 /\ resp'.msg = "NotPending"
              /\ agents' = agents
         /\ ~Visible(id) =>
              /\ resp'.code = 400 /\ resp'.msg = "AgentNotFound"
              /\ agents' = agents]_vars

\* C2 witness: Approve was refused for its status while an offline agent exists
C2_Witness ==
  /\ resp.msg = "NotPending"
  /\ \E i \in AgentIds : Visible(i) /\ agents[i].status = "offline"

NoAgentHas(token) ==
  \A i \in AgentIds : ~(Visible(i) /\ agents[i].token = token)

\* C4: Heartbeat with a token that belongs to no agent answers 401
\* (Unauthorized), creates no agent record and changes no field of any agent.
C4_UnknownTokenHeartbeat ==
  [][resp'.op = "Heartbeat" =>
     \A token \in 0..MaxTokens, ip \in IPs, req \in HeartbeatReqs :
       (NoAgentHas(token) /\ Heartbeat(token, ip, req)) =>
         /\ resp'.code = 401
         /\ agents' = agents]_vars

\* C4 witness: a heartbeat was refused for its token while agents exist, one of
\* them holding a token
C4_Witness ==
  /\ resp.msg = "InvalidToken"
  /\ \E i \in AgentIds : Visible(i) /\ agents[i].token # NoToken

\* older than the liveness window of 2 minutes
OlderThanWindow(i) == now - agents[i].last_seen > OfflineWindow

\* C5: one run of the sweep sets to offline exactly the online agents whose
\* last-seen is older than now minus 2 minutes; every other agent keeps its
\* status, and no field other than status changes on any agent.
C5_SweepExactlyStale ==
  [][UpdateOfflineAgents =>
       /\ DOMAIN agents' = DOMAIN agents
       /\ \A i \in AgentIds :
            /\ [agents'[i] EXCEPT !.status = agents[i].status] = agents[i]
            /\ Visible(i) =>
                 agents'[i].status =
                   IF agents[i].status = "online" /\ OlderThanWindow(i)
                     THEN "offline" ELSE agents[i].status]_vars

\* C5 witness: the sweep has marked one agent offline and left a fresher one
\* online
C5_Witness ==
  \E i, j \in AgentIds :
    /\ Visible(i) /\ agents[i].status = "offline"
    /\ Visible(j) /\ agents[j].status = "online" /\ ~OlderThanWindow(j)

\* C6: a successful Heartbeat sets status online, last-seen now and ip to the
\* caller's, and overwrites version, build time, hostname, os and arch only
\* with non-empty values; a field sent empty keeps its stored value.
C6_HeartbeatPartialUpdate ==
  [][(resp'.op = "Heartbeat" /\ resp'.code = 200) =>
     \A token \in 0..MaxTokens, ip \in IPs, req \in HeartbeatReqs :
       Heartbeat(token, ip, req) =>
         LET a == resp'.agent_id IN
         /\ agents'[a].status = "online"
         /\ agents'[a].last_seen = now
         /\ agents'[a].ip = ip
         /\ agents'[a].version = IF req.version = "" THEN agents[a].version ELSE req.version
         /\ agents'[a].build_time = IF req.build_time = "" THEN agents[a].build_time ELSE req.build_time
         /\ agents'[a].hostname = IF req.hostname = "" THEN agents[a].hostname ELSE req.hostname
         /\ agents'[a].os = IF req.os = "" THEN agents[a].os ELSE req.os
         /\ agents'[a].arch = IF req.arch = "" THEN agents[a].arch ELSE req.arch]_vars

\* C6 witness: after a full heartbeat and a partial one, the agent holds the
\* new hostname and still the build time and os of the full one
C6_Witness ==
  /\ resp.code = 200 /\ resp.agent_id # 0
  /\ \E i \in AgentIds :
       /\ resp.agent_id = i
       /\ agents[i].hostname = "h2" /\ agents[i].build_time = "b1"
       /\ agents[i].os = "linux" /\ agents[i].arch = "arm64"
       /\ agents[i].last_seen = now

Referenced(id) == \E t \in DOMAIN tasks : tasks[t].agent_id = id

\* C7: Delete(agentId) fails with Conflict and leaves the agent unchanged
\* whenever a task references agentId; otherwise it succeeds and the agent is
\* soft-deleted; a deleted agent never becomes visible again; Delete never
\* touches an execution record, whether or not the agent has any.
C7_DeleteBlockedByTasks ==
  [][/\ \A i \in AgentIds :
          agents[i].deleted => (i \in DOMAIN agents' /\ agents'[i].deleted)
     /\ resp'.op = "Delete" =>
          \A id \in 1..(MaxAgents + 1) :
            Delete(id) =>
              /\ logs' = logs
              /\ Referenced(id) =>
                   /\ resp'.code = 400 /\ resp'.msg = "HasTasks"
                   /\ agents' = agents
              /\ (~Referenced(id) /\ Visible(id)) =>
                   /\ resp'.code = 200
                   /\ agents' = [agents EXCEPT ![id].deleted = TRUE]]_vars

\* C7 witness: an agent with a reported result and no task was deleted, and a
\* heartbeat with its token came afterwards
C7_Witness ==
  /\ resp.op = "Heartbeat"
  /\ \E i \in AgentIds :
       /\ agents[i].deleted /\ agents[i].status = "online"
       /\ \E l \in logs : l.agent_id = i
       /\ ~Referenced(i)
       /\ \E t \in DOMAIN tasks : tasks[t].agent_id # 0

\* C10: when the compression of the reported output fails, the report of an
\* authenticated agent still persists the execution record, with an empty
\* stored output, and answers success.
C10_CompressionFailureKeepsRecord ==
  [][resp'.op = "ReportResult" =>
     \A token \in 1..MaxTokens, result \in Results :
       (ReportResult(token, result, FALSE, TRUE) /\ GetByToken(token) # 0
          /\ agents[GetByToken(token)].enabled) =>
         /\ resp'.code = 200
         /\ \E l \in logs' :
              /\ logs' = logs \cup {l} /\ l \notin logs
              /\ l.output = ""
              /\ l.task_id = result.task_id /\ l.status = result.status]_vars

\* C10 witness: a report was accepted and its record holds an empty output
C10_Witness ==
  /\ resp.op = "ReportResult" /\ resp.code = 200
  /\ \E l \in logs : l.id = nextLogId - 1 /\ l.output = "" /\ l.status = "failed"

\* the finished redemptions of code c that were begun when it existed
RedeemedOf(c) ==
  {r \in DOMAIN redeemers : /\ redeemers[r].code = c
                            /\ redeemers[r].done
                            /\ redeemers[r].result # "NotFound"}

\* C3: when two redemptions (or more) of the same code of one use and no
\* expiry, begun when the code existed, have finished, whatever the order of
\* their steps, exactly one has succeeded and every other has failed as
\* Exhausted, the used count is 1 and exactly one agent was created
C3_OneRedeemWins ==
  \A c \in DOMAIN regCodes :
    ( /\ regCodes[c].max_uses = 1
      /\ regCodes[c].expires_at = 0
      /\ Cardinality(RedeemedOf(c)) >= 2 )
    => /\ Cardinality({r \in RedeemedOf(c) : redeemers[r].result = "ok"}) = 1
       /\ \A r \in RedeemedOf(c) : redeemers[r].result \in {"ok", "Exhausted"}
       /\ regCodes[c].used_count = 1
       /\ Cardinality({redeemers[r].agent_id : r \in RedeemedOf(c)} \ {0}) = 1
       /\ \A r \in RedeemedOf(c) :
            redeemers[r].result = "ok" =>
              /\ redeemers[r].agent_id \in DOMAIN agents
              /\ agents[redeemers[r].agent_id].status = "online"
              /\ agents[redeemers[r].agent_id].token # NoToken

\* both redemptions read a used count of 0 before either claimed, and both
\* have finished
C3_Witness ==
  /\ Len(redeemers) = 2
  /\ redeemers[1].code = redeemers[2].code
  /\ redeemers[1].code \in DOMAIN regCodes
  /\ regCodes[redeemers[1].code].max_uses = 1
  /\ regCodes[redeemers[1].code].expires_at = 0
  /\ redeemers[1].seen = 0 /\ redeemers[2].seen = 0
  /\ redeemers[1].done /\ redeemers[2].done
  /\ redeemers[2].result = "ok"

\* the logs of task t
LogsOf(S, t) == {l \in S : l.task_id = t}

\* C8: a cleanup of a task that keeps N logs by count, with M logs stored,
\* deletes exactly the M - N logs of lowest id when M > N and none
\* otherwise, leaves the other tasks' logs alone, and a second cleanup right
\* after it deletes nothing
C8_CountRetention ==
  [][\A t \in 1..MaxTasks :
       ( /\ CleanTaskLogs(t)
         /\ t \in DOMAIN tasks
         /\ tasks[t].clean_config.type = "count" )
       => LET N == tasks[t].clean_config.keep
              M == Cardinality(LogsOf(logs, t))
              deleted == logs \ logs'
          IN /\ logs' \subseteq logs
             /\ deleted \subseteq LogsOf(logs, t)
             /\ Cardinality(deleted) = IF M > N THEN M - N ELSE 0
             /\ \A d \in deleted : \A k \in LogsOf(logs', t) : d.id < k.id
             /\ Cleaned(t)' = {}]_vars

\* a task keeping 2 logs had 4 and has been cleaned: its two highest remain
C8_Witness ==
  /\ Len(tasks) >= 1
  /\ tasks[1].clean_config = CleanConfigOf("count", 2)
  /\ nextLogId = MaxLogs + 1
  /\ {l.id : l \in logs} = {MaxLogs - 1, MaxLogs}
  /\ \A l \in logs : l.task_id = 1
  /\ Len(tasks) = 1
  /\ cleaning = {}

\* C9: a cleanup of a task that keeps N days of logs deletes the task's logs
\* created more than N days ago, all of them, and no other log
C9_DayRetention ==
  [][\A t \in 1..MaxTasks :
       ( /\ CleanTaskLogs(t)
         /\ t \in DOMAIN tasks
         /\ tasks[t].clean_config.type = "day" )
       => LET N == tasks[t].clean_config.keep IN
          /\ logs' \subseteq logs
          /\ \A l \in logs \ logs' :
               l.task_id = t /\ now - l.created_at > N * MinutesPerDay
          /\ \A l \in logs' :
               l.task_id = t => now - l.created_at <= N * MinutesPerDay]_vars

\* on day 2 a task keeping one day of logs has lost its first log, of day 0,
\* and still has one that is exactly a day old, while the other task's log
\* of day 0 is still there
C9_Witness ==
  /\ Len(tasks) = 2
  /\ tasks[1].clean_config = CleanConfigOf("day", 1)
  /\ tasks[2].clean_config = CleanConfigOf("day", 2)
  /\ now = 2 * MinutesPerDay
  /\ nextLogId > 3
  /\ \A l \in logs : l.id # 1
  /\ \E l \in logs : l.task_id = 1 /\ l.created_at = MinutesPerDay
  /\ \E l \in logs : l.task_id = 2 /\ l.created_at = 0

\* the visible pending agents that bear this name
PendingNamed(name) ==
  {i \in AgentIds : Visible(i) /\ agents[i].name = name /\ agents[i].status = "pending"}

\* a Register of a name that no visible pending agent bears
RegistersNewName(req, ip) ==
  /\ Register(req, ip)
  /\ req.name # ""
  /\ PendingNamed(req.name) = {}

\* the registration of a new name succeeds with a new row, pending and
\* without a token, that no token authenticates
C11_RegisterStep ==
  resp'.op = "Register" =>
    \A req \in RegisterReqs, ip \in IPs :
      RegistersNewName(req, ip) =>
        /\ resp'.code = 200
        /\ resp'.status = "pending"
        /\ Len(agents') = Len(agents) + 1
        /\ resp'.agent_id = Len(agents')
        /\ agents'[Len(agents')].status = "pending"
        /\ agents'[Len(agents')].token = NoToken
        /\ \A token \in 0..(MaxTokens + 1) :
             (token # NoToken /\ GetByToken(token) = 0) => GetByToken(token)' = 0

\* the approval of a pending agent leaves it online, holding a token, seen now
C11_ApproveStep ==
  resp'.op = "Approve" =>
    \A id \in 1..MaxAgents :
      (Approve(id) /\ Visible(id) /\ agents[id].status = "pending") =>
        /\ resp'.code = 200
        /\ agents'[id].status = "online"
        /\ agents'[id].token # NoToken
        /\ resp'.token = agents'[id].token
        /\ agents'[id].last_seen = now
        /\ \E token \in 1..MaxTokens :
             token = agents'[id].token /\ GetByToken(token)' = id

\* a heartbeat with the token of an enabled agent succeeds and the agent is
\* online afterwards
C11_HeartbeatStep ==
  resp'.op = "Heartbeat" =>
    \A token \in 1..MaxTokens, ip \in IPs, req \in HeartbeatReqs \cup {SameHeartbeat} :
      (Heartbeat(token, ip, req) /\ GetByToken(token) # 0
         /\ agents[GetByToken(token)].enabled) =>
        /\ resp'.code = 200
        /\ resp'.agent_id = GetByToken(token)
        /\ agents'[GetByToken(token)].status = "online"

\* C11: the registration of a name that has no pending record yields a
\* pending agent without a token, which cannot authenticate; its approval
\* yields status online, a token and last-seen now; a heartbeat with that
\* token then succeeds and the status stays online
C11_Lifecycle ==
  [][C11_RegisterStep /\ C11_ApproveStep /\ C11_HeartbeatStep]_vars

\* the lifecycle from the approval on
C11_LifecycleOnceRegistered ==
  [][C11_ApproveStep /\ C11_HeartbeatStep]_vars

\* C12: every successful heartbeat returns need_update true exactly when a
\* version is published, a version is reported and the two differ
C12_NeedUpdate ==
  [][resp'.op = "Heartbeat" =>
       \A token \in 1..MaxTokens, v \in Versions \cup {""} :
         ( /\ Heartbeat(token, "10.0.0.1", [SameHeartbeat EXCEPT !.version = v])
           /\ resp'.code = 200 )
         => /\ resp'.need_update =
                 (latestVersion # "" /\ v # "" /\ v # latestVersion)
            /\ resp'.latest_version = latestVersion
            /\ (v = latestVersion => ~resp'.need_update)]_vars

\* version 1.1 is published and an agent reporting 1.0 was told to update
C12_Witness ==
  /\ resp.op = "Heartbeat" /\ resp.code = 200
  /\ resp.need_update
  /\ latestVersion = "1.1"
  /\ agents[resp.agent_id].version = "1.0"

\* the outcome the redeemability predicate gives for code at this moment
RedeemOutcome(code) ==
  IF code \notin DOMAIN regCodes THEN "NotFound"
  ELSE IF ~(regCodes[code].expires_at = 0 \/ regCodes[code].expires_at > now)
    THEN "Expired"
  ELSE IF ~(regCodes[code].max_uses = 0
            \/ regCodes[code].used_count < regCodes[code].max_uses)
    THEN "Exhausted"
  ELSE "ok"

C14_UsedCountBounded ==
  /\ [](\A c \in DOMAIN regCodes :
          regCodes[c].max_uses > 0 => regCodes[c].used_count <= regCodes[c].max_uses)
  /\ [][/\ DOMAIN regCodes \subseteq DOMAIN regCodes'
        /\ \A c \in DOMAIN regCodes :
             /\ regCodes'[c].used_count >= regCodes[c].used_count
             /\ regCodes'[c].max_uses = regCodes[c].max_uses
             /\ regCodes'[c].expires_at = regCodes[c].expires_at]_vars

\* a code of one use is used up, and a redemption that had read a count of 0
\* lost the comparison at the increment
C14_Witness ==
  \E r \in DOMAIN redeemers :
    /\ redeemers[r].code \in DOMAIN regCodes
    /\ regCodes[redeemers[r].code].max_uses = 1
    /\ regCodes[redeemers[r].code].used_count = 1
    /\ redeemers[r].seen = 0
    /\ redeemers[r].result = "Exhausted"

\* C15: a Register of a name that a pending agent bears creates no record:
\* it writes the hostname, version, address and last-seen of the request to
\* that record, which keeps its id, its status and its token, and returns
\* it, so that the same Register again finds the same record and the
\* pending records of the name stay the same; no Register changes an agent
\* that is not pending
C15_RegisterMerges ==
  [][resp'.op = "Register" =>
       \A req \in RepeatedReqs, ip \in IPs :
         Register(req, ip) =>
           /\ \A i \in AgentIds :
                agents[i].status # "pending" => agents'[i] = agents[i]
           /\ PendingNamed(req.name) # {} =>
                LET e == Min(PendingNamed(req.name)) IN
                /\ Len(agents') = Len(agents)
                /\ resp'.code = 200 /\ resp'.agent_id = e
                /\ resp'.status = "pending"
                /\ agents'[e] = [agents[e] EXCEPT !.hostname = req.hostname,
                                                  !.version = req.version,
                                                  !.ip = ip,
                                                  !.last_seen = now]
                /\ agents'[e].status = "pending"
                /\ agents'[e].token = agents[e].token
                /\ \A i \in AgentIds \ {e} : agents'[i] = agents[i]
                /\ PendingNamed(req.name)' = PendingNamed(req.name)
                /\ ExistingPending(req.name)' = e]_vars

\* the pending agent w1 was registered again from another host, with another
\* version, from another address and later, next to an approved agent
C15_Witness ==
  /\ resp.op = "Register" /\ resp.code = 200
  /\ Len(agents) = 2
  /\ agents[1].status = "online"
  /\ resp.agent_id = 2
  /\ agents[2] = [NewAgent([name |-> "w1", hostname |-> "h2", version |-> "1.1"],
                           "10.0.0.2") EXCEPT !.last_seen = now]
  /\ now > 0

\* a heartbeat with the token of a visible agent that is disabled
DisabledHeartbeat(token, ip, req) ==
  /\ Heartbeat(token, ip, req)
  /\ GetByToken(token) # 0
  /\ ~agents[GetByToken(token)].enabled

\* C16: a heartbeat with the valid token of a disabled agent fails as
\* Forbidden (403), not as the Unauthorized (401) of an unknown token, and
\* changes no agent
C16_DisabledHeartbeatForbidden ==
  [][resp'.op = "Heartbeat" =>
       \A token \in 1..MaxTokens, ip \in IPs, req \in HeartbeatReqs :
         DisabledHeartbeat(token, ip, req) =>
           /\ resp'.code = 403
           /\ agents' = agents]_vars

\* a heartbeat with the valid token of a disabled agent fails and changes no
\* agent
C16_DisabledHeartbeatRefused ==
  [][resp'.op = "Heartbeat" =>
       \A token \in 1..MaxTokens, ip \in IPs, req \in HeartbeatReqs :
         DisabledHeartbeat(token, ip, req) =>
           /\ resp'.code = 401 /\ resp'.msg = "AgentDisabled"
           /\ agents' = agents]_vars

\* the answer the gateway owes a request that bears this token and fails:
\* 401 for no token or a token of no agent, 403 for the token of a disabled
\* agent, 0 when the request is to be served
Refusal(token) ==
  IF token = NoToken \/ NoAgentHas(token) THEN 401
  ELSE IF \E i \in AgentIds : Visible(i) /\ agents[i].token = token /\ ~agents[i].enabled
    THEN 403
  ELSE 0

\* C17: GetTasks and ReportResult fail as Unauthorized (401) when the token
\* is missing or belongs to no agent and as Forbidden (403) when it belongs
\* to a disabled agent, whatever its status; a failure returns no task list,
\* creates no log and changes no task and no counter
C17_GatewayRefuses ==
  [][/\ resp'.op = "GetTasks" =>
          \A token \in 0..MaxTokens :
            (GetTasks(token) /\ Refusal(token) # 0) =>
              /\ resp'.code = Refusal(token)
              /\ resp'.tasks = {}
              /\ UNCHANGED <<agents, tasks, logs, nextLogId, stats>>
     /\ resp'.op = "ReportResult" =>
          \A token \in 0..MaxTokens, a \in 0..MaxAgents :
            ( /\ ReportResult(token, ResultOf(1, a, "success", "out"), TRUE, TRUE)
              /\ Refusal(token) # 0 ) =>
              /\ resp'.code = Refusal(token)
              /\ UNCHANGED <<agents, tasks, logs, nextLogId, stats>>]_vars

\* an agent that is online and disabled, with a task of its own, was refused
\* with 403
C17_Witness ==
  /\ resp.op \in {"GetTasks", "ReportResult"}
  /\ resp.code = 403
  /\ \E i \in AgentIds :
       /\ Visible(i) /\ agents[i].status = "online" /\ ~agents[i].enabled
       /\ \E t \in DOMAIN tasks : tasks[t].agent_id = i
       /\ \A j \in AgentIds \ {i} : agents[j].enabled
  /\ logs = {}

\* the visible agents that hold this token
OwnersOf(token) == {i \in AgentIds : Visible(i) /\ agents[i].token = token}

\* C18: the log a ReportResult creates bears the id of the agent that holds
\* the presented token, whatever agent id the body of the request names, and
\* the logs there were stay as they are
C18_AgentIdStamped ==
  [][resp'.op = "ReportResult" =>
       \A token \in 0..MaxTokens, a \in 0..MaxAgents :
         ( /\ ReportResult(token, ResultOf(1, a, "success", "out"), TRUE, TRUE)
           /\ resp'.code = 200 )
         => /\ Cardinality(logs' \ logs) = 1
            /\ \A l \in logs' \ logs : {l.agent_id} = OwnersOf(token)
            /\ logs \subseteq logs']_vars

\* both agents have reported once, and each log bears its reporter's id
C18_Witness ==
  /\ resp.op = "ReportResult" /\ resp.code = 200
  /\ Len(agents) = 2
  /\ agents[1].token # NoToken /\ agents[2].token # NoToken
  /\ {l.agent_id : l \in logs} = {1, 2}

\* a token that was issued and that no visible agent holds any more
Retired(token) == token # NoToken /\ token < nextToken /\ NoAgentHas(token)

\* C19: RegenerateToken on an approved agent changes its token and nothing
\* else of it (status, enabled and last-seen stay); from that step on the old
\* token is held by no agent and the returned one resolves to that agent;
\* every Heartbeat, GetTasks and ReportResult bearing a token that was
\* replaced fails as Unauthorized (401)
C19_TokenRotation ==
  [][/\ resp'.op = "RegenerateToken" =>
          \A id \in 1..MaxAgents :
            (RegenerateToken(id) /\ Visible(id) /\ agents[id].status # "pending") =>
              /\ resp'.code = 200
              /\ resp'.token # NoToken /\ resp'.token # agents[id].token
              /\ agents' = [agents EXCEPT ![id].token = resp'.token]
              /\ \A token \in 1..MaxTokens :
                   /\ token = agents[id].token => NoAgentHas(token)'
                   /\ token = resp'.token => OwnersOf(token)' = {id}
     /\ resp'.op \in {"Heartbeat", "GetTasks", "ReportResult"} =>
          \A token \in 1..MaxTokens :
            ( /\ Retired(token)
              /\ \/ Heartbeat(token, "10.0.0.1", SameHeartbeat)
                 \/ GetTasks(token)
                 \/ ReportResult(token, ResultOf(1, 0, "success", "out"), TRUE, TRUE) )
            => /\ resp'.code = 401
               /\ UNCHANGED <<agents, tasks, logs, nextLogId, stats>>]_vars

\* the token of an agent that had gone offline and was disabled has been
\* replaced, after its last heartbeat, and the agent is as it was
C19_Witness ==
  /\ resp.op = "RegenerateToken"
  /\ Len(agents) = 1
  /\ agents[1].token = resp.token /\ resp.token = MaxTokens
  /\ agents[1].status = "offline"
  /\ ~agents[1].enabled
  /\ agents[1].last_seen < now

\* the visible agents of this name at this address
Matching(name, ip) ==
  {i \in AgentIds : Visible(i) /\ agents[i].name = name /\ agents[i].ip = ip}

\* C20: CheckStatus fails as NotFound (404), changing nothing, when no agent
\* has that name and address; otherwise it sets the last-seen of such an
\* agent to now and changes nothing else, returns its id and its status, and
\* returns its token if and only if that status is not pending
C20_CheckStatus ==
  [][resp'.op = "CheckStatus" =>
       \A name \in Names, ip \in IPs :
         CheckStatus(name, ip) =>
           IF Matching(name, ip) = {}
             THEN resp'.code = 404 /\ agents' = agents
             ELSE /\ resp'.code = 200
                  /\ resp'.agent_id \in Matching(name, ip)
                  /\ agents' = [agents EXCEPT ![resp'.agent_id].last_seen = now]
                  /\ resp'.status = agents[resp'.agent_id].status
                  /\ resp'.has_token <=> (resp'.status # "pending")
                  /\ resp'.has_token =>
                       /\ resp'.token = agents[resp'.agent_id].token
                       /\ resp'.token # NoToken]_vars

\* an approved agent that had gone offline polled, got its token, and is
\* still offline, seen now
C20_Witness ==
  /\ resp.op = "CheckStatus" /\ resp.code = 200
  /\ resp.status = "offline"
  /\ resp.has_token
  /\ agents[resp.agent_id].token = resp.token
  /\ agents[resp.agent_id].status = "offline"
  /\ agents[resp.agent_id].last_seen = now

\* C21: a successful heartbeat returns the stored force-update flag and
\* clears it exactly when it was set and an update is needed at that
\* heartbeat; a flag that is set while no update is needed stays set, a flag
\* that is clear stays clear, and only ForceUpdate ever sets it
C21_ForceUpdateConsumed ==
  [][/\ resp'.op = "Heartbeat" =>
          \A token \in 1..MaxTokens, v \in Versions \cup {""} :
            ( /\ Heartbeat(token, "10.0.0.1", [SameHeartbeat EXCEPT !.version = v])
              /\ resp'.code = 200 )
            => LET a == resp'.agent_id
                   needed == latestVersion # "" /\ v # "" /\ v # latestVersion
               IN /\ OwnersOf(token) = {a}
                  /\ resp'.force_update = agents[a].force_update
                  /\ agents'[a].force_update = (agents[a].force_update /\ ~needed)
                  /\ \A i \in AgentIds \ {a} :
                       agents'[i].force_update = agents[i].force_update
     /\ \A i \in AgentIds :
          (~agents[i].force_update /\ agents'[i].force_update)
            => resp'.op = "ForceUpdate"
     /\ \A i \in AgentIds :
          (agents[i].force_update /\ ~agents'[i].force_update)
            => resp'.op = "Heartbeat"]_vars

\* with version 1.1 published, a heartbeat that needed the update returned
\* the flag set and cleared it
C21_Witness ==
  /\ resp.op = "Heartbeat" /\ resp.code = 200
  /\ resp.force_update /\ resp.need_update
  /\ latestVersion = "1.1"
  /\ ~agents[resp.agent_id].force_update

\* C22: the status of an agent becomes offline only in a step of the sweep
\* UpdateOfflineAgents, and only from online; the status of an offline agent
\* changes only in a successful heartbeat, which makes it online
C22_OfflineOnlineTransitions ==
  [][\A i \in AgentIds :
       /\ (agents[i].status # "offline" /\ agents'[i].status = "offline")
            => /\ UpdateOfflineAgents
               /\ agents[i].status = "online"
       /\ (agents[i].status = "offline" /\ agents'[i].status # "offline")
            => /\ resp'.op = "Heartbeat" /\ resp'.code = 200
               /\ resp'.agent_id = i
               /\ agents'[i].status = "online"]_vars

\* an offline agent polled its status just now and is offline still
C22_Witness ==
  /\ resp.op = "CheckStatus" /\ resp.code = 200
  /\ resp.status = "offline"
  /\ agents[resp.agent_id].status = "offline"
  /\ agents[resp.agent_id].last_seen = now
  /\ agents[resp.agent_id].force_update
  /\ logs # {}

\* C23: GetTasks succeeds for every enabled agent, offline ones too; a
\* successful GetTasks returns exactly the enabled tasks whose agent is the
\* one that holds the token, and changes no agent, task or log
C23_GetTasksFrame ==
  [][resp'.op = "GetTasks" =>
       \A token \in 1..MaxTokens :
         GetTasks(token) =>
           /\ UNCHANGED <<agents, tasks, logs, nextLogId, stats>>
           /\ \A a \in OwnersOf(token) :
                agents[a].enabled =>
                  /\ resp'.code = 200
                  /\ resp'.agent_id = a
                  /\ resp'.tasks = {t \in DOMAIN tasks : /\ tasks[t].enabled
                                                        /\ tasks[t].agent_id = a}
           /\ resp'.code = 200 =>
                \E a \in OwnersOf(token) : agents[a].enabled]_vars

\* an offline agent fetched its tasks and got its one enabled task, not its
\* disabled one
C23_Witness ==
  /\ resp.op = "GetTasks" /\ resp.code = 200
  /\ agents[resp.agent_id].status = "offline"
  /\ Len(tasks) = 2
  /\ tasks[1].agent_id = resp.agent_id /\ tasks[2].agent_id = resp.agent_id
  /\ tasks[1].enabled /\ ~tasks[2].enabled
  /\ resp.tasks = {1}

\* what Update may not change of an agent
Untouched(agent) ==
  [status |-> agent.status, token |-> agent.token, last_seen |-> agent.last_seen,
   ip |-> agent.ip, version |-> agent.version, build_time |-> agent.build_time,
   hostname |-> agent.hostname, os |-> agent.os, arch |-> agent.arch,
   force_update |-> agent.force_update, deleted |-> agent.deleted]

\* C24: Update writes the name, the description and the enabled flag of the
\* request to agent id and changes nothing else of it (status, token,
\* last-seen, address, version metadata, force-update flag) and no other
\* agent; a disabled agent that was online is online still
C24_UpdateFrame ==
  [][resp'.op = "Update" =>
       \A id \in 1..MaxAgents, req \in UpdateReqs :
         Update(id, req) =>
           /\ Len(agents') = Len(agents)
           /\ \A i \in AgentIds :
                /\ Untouched(agents'[i]) = Untouched(agents[i])
                /\ i # id => agents'[i] = agents[i]
           /\ (Visible(id) /\ resp'.code = 200) =>
                /\ agents'[id].name = req.name
                /\ agents'[id].description = req.description
                /\ agents'[id].enabled = req.enabled
           /\ resp'.code # 200 => agents' = agents]_vars

\* an agent that reported its metadata was renamed and disabled later on, and
\* is online with all it had
C24_Witness ==
  /\ resp.op = "Update" /\ resp.code = 200
  /\ Len(agents) >= 1
  /\ agents[1].name = "w2" /\ agents[1].description = "d" /\ ~agents[1].enabled
  /\ agents[1].status = "online"
  /\ agents[1].token # NoToken
  /\ agents[1].arch = "arm64"
  /\ agents[1].last_seen < now

\* C25: Reject succeeds whatever the status of the agent and whether or not
\* tasks reference it; the agent is gone afterwards, and no other agent and
\* no task has changed
C25_RejectUnconditional ==
  [][resp'.op = "Reject" =>
       \A id \in 1..(MaxAgents + 1) :
         Reject(id) =>
           /\ resp'.code = 200
           /\ ~Visible(id)'
           /\ GetByID(id)' = 0
           /\ Len(agents') = Len(agents)
           /\ \A i \in AgentIds \ {id} : agents'[i] = agents[i]
           /\ \A token \in 1..MaxTokens :
                OwnersOf(token) = {id} => NoAgentHas(token)'
           /\ tasks' = tasks]_vars

\* an offline agent that a task references was rejected
C25_Witness ==
  /\ resp.op = "Reject" /\ resp.code = 200
  /\ \E i \in AgentIds :
       /\ agents[i].deleted
       /\ agents[i].status = "offline"
       /\ Referenced(i)

\* C26: Delete checks for referencing tasks and deletes as one step with
\* respect to task assignment: whatever the interleaving of a Delete with
\* the assignment of a task to the same agent, no state has a deleted agent
\* that a task references.
C26_DeleteAtomicWithAssignment ==
  \A i \in AgentIds : agents[i].deleted => ~Referenced(i)

\* C27: under any interleaving of Heartbeat calls of the same agent, each
\* reading the clock and then writing, the stored last_seen of the agent
\* never decreases: no step takes it below the value it had.
C27_LastSeenMonotonic ==
  [][\A i \in AgentIds : agents'[i].last_seen >= agents[i].last_seen]_vars

\* a record whose run has ended
Terminal(l) == l.status \in {"success", "failed"}

\* C28: once a record has status success or failed no operation changes any
\* of its fields: after every step a terminal record is either stored
\* exactly as it was or, deleted by the cleanup, not stored at all.
C28_TerminalImmutable ==
  [][\A l \in logs :
       Terminal(l) => \/ l \in logs'
                      \/ \A m \in logs' : m.id # l.id]_vars

\* C29: every record persisted by ReportResult is terminal: its status is
\* success or failed, whatever status string the agent submitted.
C29_ReportedRecordsTerminal ==
  \A l \in logs : l.agent_id # 0 => Terminal(l)

\* C30: ReportResult of the service persists the record, then updates the
\* task's last_run, then increments the stats. When the record cannot be
\* persisted the call returns the error, no record is stored and neither
\* any task's last_run nor any counter changes. When the record is
\* persisted the call returns success and the record is stored, whether or
\* not the update of last_run and the increment are carried out; a failed
\* update leaves last_run as it was and does not stop the increment, a
\* failed increment leaves the counters as they were.
C30_PersistThenBestEffort ==
  [][resp'.op = "ReportResult" =>
     \A t \in 1..MaxTasks, status \in {"success", "failed"},
        createOk, touchOk, statsOk \in BOOLEAN :
       RecordAgentResult(ResultOf(t, 1, status, "out"), TRUE,
                         createOk, touchOk, statsOk) =>
         IF ~createOk
           THEN /\ resp'.code = 500
                /\ logs' = logs
                /\ tasks' = tasks
                /\ stats' = stats
         ELSE /\ resp'.code = 200
              /\ \E l \in logs' :
                   /\ l \notin logs /\ logs' = logs \cup {l}
                   /\ l.task_id = t /\ l.status = status /\ l.agent_id = 1
              /\ ~touchOk => tasks' = tasks
              /\ touchOk =>
                   \A k \in DOMAIN tasks :
                     tasks'[k].last_run = IF k = t THEN now ELSE tasks[k].last_run
              /\ ~statsOk => stats' = stats
              /\ statsOk =>
                   /\ stats'[t][status] = stats[t][status] + 1
                   /\ \A k \in DOMAIN stats, st \in {"success", "failed"} :
                        <<k, st>> # <<t, status>> => stats'[k][st] = stats[k][st]]_vars

\* C30 witness: a report of task 1 was answered with success and its record
\* is stored, while the task's last_run is still older than the clock and no
\* run of the task has been counted
C30_Witness ==
  /\ resp.op = "ReportResult" /\ resp.code = 200
  /\ \E l \in logs : l.task_id = 1 /\ l.agent_id = 1 /\ l.created_at = now
  /\ 1 \in DOMAIN tasks /\ tasks[1].last_run < now
  /\ stats[1].success = 0 /\ stats[1].failed = 0

\* the records of task t that agents reported
ReportedOf(t) == {l \in logs : l.task_id = t /\ l.agent_id # 0}

\* C31: every ReportResult that persists a record of a task is eventually
\* followed by a cleanup of the logs of that task, started without the
\* answer to the agent waiting for it: once a reported record of task t is
\* stored, a cleanup of t is under way at that moment or later.
C31_ReportLeadsToCleanup ==
  \A t \in 1..MaxTasks : (ReportedOf(t) # {}) ~> (t \in cleaning)

\* task t has nothing to clean by: it does not exist, its clean_config is
\* empty, its keep is zero or negative, or its type is neither day nor count
NoPolicy(t) ==
  \/ t \notin DOMAIN tasks
  \/ /\ t \in DOMAIN tasks
     /\ \/ tasks[t].clean_config.text = "empty"
        \/ tasks[t].clean_config.keep <= 0
        \/ tasks[t].clean_config.type \notin {"day", "count"}

\* C32: a cleanup of task t deletes nothing when the task does not exist,
\* has no policy, has keep <= 0 or has a type other than day and count; and
\* whatever the policy, it only deletes, and only records of task t.
C32_CleanupFrame ==
  [][\A t \in 1..(MaxTasks + 1) :
       CleanTaskLogs(t) =>
         /\ logs' \subseteq logs
         /\ (logs \ logs') \subseteq LogsOf(logs, t)
         /\ NoPolicy(t) => logs' = logs]_vars

\* C32 witness: task 1 keeps zero days; its cleanup has run since its second
\* log was stored, at a time when its first log was older than the clock,
\* and both logs are still there
C32_Witness ==
  /\ 1 \in DOMAIN tasks /\ tasks[1].clean_config = CleanConfigOf("day", 0)
  /\ now = 1
  /\ \E l \in logs : l.task_id = 1 /\ l.created_at = 0
  /\ \E l \in logs : l.task_id = 1 /\ l.created_at = 1
  /\ cleaning = {}

\* agent i is online and was last seen more than the window ago
Overdue(i) ==
  /\ i \in AgentIds /\ Visible(i)
  /\ agents[i].status = "online"
  /\ OlderThanWindow(i)

\* C33: with the sweep kept running, an online agent last seen more than 2
\* minutes ago, disabled or not, is marked offline unless a heartbeat of it
\* succeeds first; the sweep that runs while it is overdue is the one that
\* marks it; and once offline it stays offline until a heartbeat of it
\* succeeds.
C33_OverdueMarkedOffline ==
  /\ \A i \in 1..MaxAgents : Overdue(i) ~> ~Overdue(i)
  /\ [][\A i \in AgentIds :
         /\ (UpdateOfflineAgents /\ Overdue(i)) => agents'[i].status = "offline"
         /\ (Overdue(i) /\ ~Overdue(i)') =>
              \/ agents'[i].status = "offline"
              \/ /\ resp'.op = "Heartbeat" /\ resp'.code = 200
                 /\ resp'.agent_id = i
         /\ (agents[i].status = "offline" /\ agents'[i].status # "offline") =>
              /\ resp'.op = "Heartbeat" /\ resp'.code = 200
              /\ resp'.agent_id = i]_vars

\* C33 witness: a disabled agent, its heartbeat just refused, is offline
C33_Witness ==
  /\ resp.op = "Heartbeat" /\ resp.code = 401 /\ resp.msg = "AgentDisabled"
  /\ 1 \in AgentIds /\ ~agents[1].enabled
  /\ agents[1].status = "offline"
  /\ OlderThanWindow(1)

\* C34: a Register of a name that no pending agent bears succeeds and adds
\* a record that is pending and has the empty token, also when pending agents
\* of other names or removed agents are stored: the empty token of a pending
\* agent does not collide with the unique index on the token.
C34_RegisterNewNameSucceeds ==
  [][resp'.op = "Register" =>
     \A req \in RepeatedReqs, ip \in IPs :
       RegistersNewName(req, ip) =>
         /\ resp'.code = 200
         /\ \E i \in DOMAIN agents' :
              /\ i \notin AgentIds
              /\ agents'[i].name = req.name
              /\ agents'[i].status = "pending"
              /\ agents'[i].token = NoToken
              /\ ~agents'[i].deleted]_vars

\* C35: in every reachable state at most one pending agent bears a given
\* name, also when two Register calls of the same name overlap, each doing
\* its lookup before either does its Create.
C35_OnePendingPerName ==
  \A name \in Names : Cardinality(PendingNamed(name)) <= 1

\* C36: for each agent at most one Approve ever succeeds, also when two
\* Approve calls of the same pending agent overlap: an Approve that returns
\* a token does so for an agent that was pending and had no token until
\* that moment, and the token it returns is the one stored, so that no
\* Approve writes over the token of another.
C36_ApproveOnce ==
  [][\A a \in approving :
       ApproveWrite(a) =>
         /\ agents[a.id].status = "pending"
         /\ agents[a.id].token = NoToken
         /\ agents'[a.id].token = resp'.token]_vars

\* C37: whenever a pending agent is stored for a name and an address,
\* CheckStatus of that name and address answers for a pending record: it
\* reports the status pending and returns no token, also when an approved
\* agent of the same name and address is stored.
C37_CheckStatusAnswersPending ==
  [][resp'.op = "CheckStatus" =>
       \A name \in Names, ip \in IPs :
         ( /\ CheckStatus(name, ip)
           /\ \E i \in Matching(name, ip) : agents[i].status = "pending" )
         => /\ resp'.code = 200
            /\ agents[resp'.agent_id].status = "pending"
            /\ resp'.status = "pending"
            /\ ~resp'.has_token
            /\ resp'.token = NoToken]_vars

\* task t exists and is assigned to the agent that holds the token
OwnedBy(t, token) ==
  /\ t \in DOMAIN tasks
  /\ tasks[t].agent_id # 0
  /\ tasks[t].agent_id \in OwnersOf(token)

\* C38: every record a ReportResult creates is of a task assigned to the
\* agent that reports; a report that names a task of another agent, of no
\* agent, or a task that does not exist creates no record and changes no
\* task's last_run and no counter.
C38_ReportOnlyOwnTasks ==
  [][resp'.op = "ReportResult" =>
       \A token \in 0..MaxTokens, result \in Results,
          compressOk, createOk \in BOOLEAN :
         ReportResult(token, result, compressOk, createOk) =>
           /\ \A l \in logs' \ logs : OwnedBy(l.task_id, token)
           /\ ~OwnedBy(result.task_id, token) =>
                UNCHANGED <<logs, tasks, stats>>]_vars

\* the removed agents that held this token when they were removed
RemovedOwnersOf(token) ==
  {i \in AgentIds : agents[i].deleted /\ agents[i].token = token}

\* C39: once Delete or Reject has removed an agent, its token authenticates
\* no more: every Heartbeat, GetTasks and ReportResult that presents it
\* fails as Unauthorized (401) and changes no agent, task, log or counter;
\* and no step, of Heartbeat or of the sweep or of any other operation,
\* changes the removed record.
C39_RemovedTokenDead ==
  [][/\ \A i \in AgentIds :
          agents[i].deleted => (i \in DOMAIN agents' /\ agents'[i] = agents[i])
     /\ \A token \in 1..MaxTokens :
          RemovedOwnersOf(token) # {} =>
            /\ Heartbeat(token, "10.0.0.1", SameHeartbeat) =>
                 resp'.code = 401 /\ agents' = agents
            /\ GetTasks(token) =>
                 resp'.code = 401 /\ resp'.tasks = {}
            /\ ReportResult(token, ResultOf(1, 0, "success", "out"), TRUE, TRUE) =>
                 resp'.code = 401 /\ UNCHANGED <<logs, tasks, stats>>]_vars

\* C39 witness: a request bearing the token of a removed agent was refused;
\* the removed agent is still recorded as online though last seen longer ago
\* than the window, while the other agent has been marked offline
C39_Witness ==
  /\ resp.op \in {"Heartbeat", "GetTasks", "ReportResult"}
  /\ resp.code = 401 /\ resp.msg = "InvalidToken"
  /\ \E i, j \in AgentIds :
       /\ agents[i].deleted /\ agents[i].token # NoToken
       /\ agents[i].status = "online" /\ OlderThanWindow(i)
       /\ Visible(j) /\ agents[j].status = "offline"

\* C40: a RegenerateToken of a stored agent returns a token that resolves
\* to that agent right afterwards; a RegenerateToken of an id that no agent
\* has, or that a removed agent has, fails and returns no token.
C40_RegenerateTokenResolves ==
  [][resp'.op = "RegenerateToken" =>
       \A id \in 1..(MaxAgents + 1) :
         RegenerateToken(id) =>
           IF Visible(id)
             THEN /\ resp'.code = 200
                  /\ \E token \in 1..MaxTokens :
                       token = resp'.token /\ GetByToken(token)' = id
             ELSE /\ resp'.code # 200
                  /\ ~resp'.has_token]_vars

====
